---- MODULE Spec2Model ----
(***************************************************************************)
(* Model of the tab extraction engine of the gita repository:              *)
(*   api/lib/siteConfig.js  (site registry, getSiteConfig)                 *)
(*   api/lib/parser.js      (parseTabFromHtml and its extractors)          *)
(*                                                                         *)
(* Hostnames are sequences of one-character strings, so that the string    *)
(* operations of the source (replace, includes, endsWith, ===) are         *)
(* computed character by character.  An html document is a sequence of     *)
(* lexemes (tags, entities, words); every lexeme stands for one literal    *)
(* piece of text whose length in characters is given by LexLen.            *)
(***************************************************************************)
EXTENDS Integers, Sequences, FiniteSets, TLC

VARIABLES url, html, op, result, config, ran, registry, request, upstream,
          previous, importingUrl, rendered, imports, page, transpose, line,
          displayLine, dbTabs, toggles, isFavorite

(* The state of the Home page, of the transposition of the Player page,  *)
(* of the stored tab and its favourite mark, of the client                 *)
homeVars == <<importingUrl, rendered, imports, page>>
playerVars == <<transpose, line, displayLine>>
storeVars == <<dbTabs, toggles, isFavorite>>
uiVars == <<homeVars, playerVars, storeVars>>

(* The state of the server side and of its callers *)
apiVars == <<url, html, op, result, config, ran, registry, request, upstream,
             previous>>

vars == <<url, html, op, result, config, ran, registry, request, upstream,
          previous, uiVars>>

----------------------------------------------------------------------------
(* Generic sequence helpers                                                *)

(* The concatenation of a list of sequences, by halves *)
RECURSIVE Concat(_)
Concat(ss) ==
    IF Len(ss) = 0 THEN <<>>
    ELSE IF Len(ss) = 1 THEN ss[1]
    ELSE LET m == Len(ss) \div 2
         IN  Concat(SubSeq(ss, 1, m)) \o Concat(SubSeq(ss, m + 1, Len(ss)))

(* s occurs in h starting at position i (1-based) *)
OccursAt(h, s, i) ==
    /\ i >= 1
    /\ i + Len(s) - 1 <= Len(h)
    /\ \A j \in 1..Len(s) : h[i + j - 1] = s[j]

(* String.prototype.includes *)
Includes(h, s) == \E i \in 1..(Len(h) + 1) : OccursAt(h, s, i)

(* String.prototype.endsWith *)
EndsWith(h, s) == OccursAt(h, s, Len(h) - Len(s) + 1)

(* String.prototype.indexOf, 0 when there is no occurrence (1-based) *)
IndexOf(h, s) ==
    IF Includes(h, s)
    THEN CHOOSE i \in 1..(Len(h) + 1) :
            /\ OccursAt(h, s, i)
            /\ \A k \in 1..(i - 1) : ~OccursAt(h, s, k)
    ELSE 0

(* String.prototype.replace(pattern, '') with a string pattern: only the   *)
(* first occurrence is removed, wherever it is.                            *)
ReplaceFirst(h, s) ==
    LET i == IndexOf(h, s)
    IN  IF i = 0 THEN h
        ELSE SubSeq(h, 1, i - 1) \o SubSeq(h, i + Len(s), Len(h))

----------------------------------------------------------------------------
(* Host names of the registry and of the parser table *)

K_fingerstyle == <<"f","i","n","g","e","r","s","t","y","l","e","-","g","u","i","t","a","r",".","j","p">>
K_guitarone == <<"g","u","i","t","a","r","o","n","e",".","j","p">>
K_acoustic == <<"a","c","o","u","s","t","i","c","g","u","i","t","a","r","m","a","g","a","z","i","n","e",".","j","p">>
K_tabguitar == <<"t","a","b","g","u","i","t","a","r",".","b","l","o","g",".","f","c","2",".","c","o","m">>
K_blogfc2 == <<"b","l","o","g",".","f","c","2",".","c","o","m">>
K_beginner == <<"g","u","i","t","a","r","-","b","e","g","i","n","n","e","r",".","n","e","t">>
K_yukimatsui == <<"y","u","k","i","m","a","t","s","u","i",".","j","p">>
K_kotaro == <<"k","o","t","a","r","o","-","o","s","h","i","o",".","c","o","m">>
P_jtotal == <<"j","-","t","o","t","a","l",".","n","e","t">>
P_chordwiki == <<"c","h","o","r","d","w","i","k","i",".","j","p","n",".","o","r","g">>
P_ufret == <<"u","f","r","e","t",".","j","p">>
P_gakufu == <<"g","a","k","u","f","u",".","g","a","k","k","i",".","m","e">>
P_ug == <<"u","l","t","i","m","a","t","e","-","g","u","i","t","a","r",".","c","o","m">>
P_songsterr == <<"s","o","n","g","s","t","e","r","r",".","c","o","m">>
P_chordify == <<"c","h","o","r","d","i","f","y",".","n","e","t">>
P_guitartabs == <<"g","u","i","t","a","r","t","a","b","s",".","c","c">>
WWW == <<"w","w","w",".">>
S_constructor == <<"c","o","n","s","t","r","u","c","t","o","r">>
S_proto == <<"_","_","p","r","o","t","o","_","_">>
S_example == <<"e","x","a","m","p","l","e",".","c","o","m">>
S_music == <<"m","u","s","i","c",".">>
S_x == <<"x">>
S_fc2 == <<"f","c","2",".","c","o","m">>
S_blog == <<"b","l","o","g",".">>

----------------------------------------------------------------------------
(* siteConfig.js *)

ParseMode == [SERVER |-> "server", REDIRECT |-> "redirect"]

TabFormat == [HTML |-> "html", PDF |-> "pdf", GP |-> "gp", VIDEO |-> "video",
              MIXED |-> "mixed"]

(* One entry of SITE_CONFIG: the key and its value.  The free-text notes   *)
(* of an entry play no part in any operation and are left out.             *)
Entry(k, fmt, prio) ==
    [key |-> k,
     value |-> [parseMode |-> ParseMode.REDIRECT, format |-> fmt,
                priority |-> prio, type |-> "Fingerstyle", lang |-> "ja"]]

(* The table in declaration order, which is the order of Object.entries *)
SITE_CONFIG ==
    << Entry(K_fingerstyle, TabFormat.HTML, 80),
       Entry(K_guitarone, TabFormat.MIXED, 75),
       Entry(K_acoustic, TabFormat.PDF, 70),
       Entry(K_tabguitar, TabFormat.MIXED, 60),
       Entry(K_blogfc2, TabFormat.MIXED, 50),
       Entry(K_beginner, TabFormat.HTML, 55),
       Entry(K_yukimatsui, TabFormat.PDF, 40),
       Entry(K_kotaro, TabFormat.PDF, 40) >>

(* Property names every object literal inherits from Object.prototype and  *)
(* that a lower-case host name can spell; obj[name] is truthy for them.    *)
InheritedKeys == {S_constructor, S_proto}

Null == [null |-> TRUE]

(* A URL the model feeds in: either a string new URL() rejects, or one it  *)
(* accepts, of which only the (lower-cased) hostname is ever read.         *)
InvalidUrl == [valid |-> FALSE]
Url(h) == [valid |-> TRUE, hostname |-> h]

OwnIndex(table, h) ==
    IF \E i \in 1..Len(table) : table[i].key = h
    THEN CHOOSE i \in 1..Len(table) : table[i].key = h
    ELSE 0

(* { domain, ...config } *)
Profile(d, v) ==
    [f \in {"domain"} \cup DOMAIN v |-> IF f = "domain" THEN d ELSE v[f]]

(* The hostname both getSiteConfig and parseTabFromHtml compute *)
StripWww(h) == ReplaceFirst(h, WWW)

(* Index of the first entry, in declaration order, whose key the host     *)
(* name ends with or contains; 0 when there is none.                       *)
FirstMatch(table, h) ==
    IF \E i \in 1..Len(table) :
          EndsWith(h, table[i].key) \/ Includes(h, table[i].key)
    THEN CHOOSE i \in 1..Len(table) :
            /\ EndsWith(h, table[i].key) \/ Includes(h, table[i].key)
            /\ \A k \in 1..(i - 1) :
                  ~(EndsWith(h, table[k].key) \/ Includes(h, table[k].key))
    ELSE 0

(* Lines 137-149 of getSiteConfig: the lookup of an already stripped host  *)
(* name.  SITE_CONFIG[hostname] also finds the inherited properties.       *)
MatchHost(table, hostname) ==
    LET own == OwnIndex(table, hostname)
        sub == FirstMatch(table, hostname)
    IN  IF own # 0 THEN Profile(hostname, table[own].value)
        ELSE IF hostname \in InheritedKeys
             THEN [domain |-> hostname]        \* { domain, ...Object }
        ELSE IF sub # 0 THEN Profile(table[sub].key, table[sub].value)
        ELSE Null

getSiteConfig(table, u) ==
    IF ~u.valid THEN Null                      \* catch { return null }
    ELSE MatchHost(table, StripWww(u.hostname))

----------------------------------------------------------------------------
(* Lexemes.  An html document, and every text cut out of it, is a sequence *)
(* of lexemes; each lexeme is the literal text its name shows.             *)

TagLexemes ==
    {"<pre>", "</pre>", "<pre class=\"tK8GG\">", "<code>", "</code>",
     "<tt>", "</tt>", "<div class=\"wiki\">", "</div>",
     "<script>", "</script>", "<title>", "</title>", "<h1>", "</h1>",
     "<a>", "</a>", "<br>", "</p>", "<b>"}

(* "lyric60" stands for a lyric word of sixty letters o; "\\n" for the two  *)
(* characters backslash, n inside a script string.                         *)
TextLexemes ==
    {"la", "lyric60", " ", "\n", "Am", "[Am]", "-", "/", "by", "Capo 3",
     "e|-0-|", "e|-0h2-|", "&nbsp;", "&amp;", "&", "\"", "\\n", "Unknown",
     "G", "Song Name", "Artist Name", "SiteBrand", "Songsterr", "Tab",
     "var", "click here", "copyright"}

LexLen(t) ==
    CASE t = "la" -> 2
      [] t = "lyric60" -> 60
      [] t \in {" ", "\n", "-", "/", "&", "\"", "G"} -> 1
      [] t \in {"Am", "by", "\\n"} -> 2
      [] t = "[Am]" -> 4
      [] t \in {"Capo 3", "e|-0-|", "&nbsp;"} -> 6
      [] t = "e|-0h2-|" -> 8
      [] t = "&amp;" -> 5
      [] t = "Unknown" -> 7
      [] t \in {"Song Name", "SiteBrand", "Songsterr"} -> 9
      [] t = "Artist Name" -> 11
      [] t \in {"Tab", "var"} -> 3
      [] t = "click here" -> 10
      [] t = "copyright" -> 9
      [] t \in {"<a>", "<b>"} -> 3
      [] t \in {"<tt>", "<h1>", "<br>", "</a>", "</p>"} -> 4
      [] t \in {"<pre>", "</tt>", "</h1>"} -> 5
      [] t \in {"<code>", "</pre>", "</div>"} -> 6
      [] t \in {"</code>", "<title>"} -> 7
      [] t \in {"<script>", "</title>"} -> 8
      [] t = "</script>" -> 9
      [] t = "<div class=\"wiki\">" -> 18
      [] t = "<pre class=\"tK8GG\">" -> 19

(* String.prototype.length, summed by halves *)
RECURSIVE TextLen(_)
TextLen(s) ==
    IF Len(s) = 0 THEN 0
    ELSE IF Len(s) = 1 THEN LexLen(s[1])
    ELSE LET m == Len(s) \div 2
         IN  TextLen(SubSeq(s, 1, m)) + TextLen(SubSeq(s, m + 1, Len(s)))

IsTag(t) == t \in TagLexemes

(* Characters JavaScript's trim() and \s remove *)
IsSpace(t) == t \in {" ", "\n"}

(* The lexeme begins / ends with a word character (\w) *)
NameLexemes == {"Song Name", "Artist Name", "SiteBrand", "Songsterr", "Tab",
                "var", "click here", "copyright"}

StartsWord(t) == t \in {"la", "lyric60", "Am", "G", "by", "Capo 3", "e|-0-|",
                        "e|-0h2-|", "Unknown"} \cup NameLexemes
EndsWord(t) == t \in {"la", "lyric60", "Am", "G", "by", "Capo 3", "Unknown"}
                        \cup NameLexemes

(* first index >= i of s whose element is in S, 0 when there is none *)
NextIn(s, S, i) ==
    LET hits == {j \in i..Len(s) : s[j] \in S}
    IN  IF hits = {} THEN 0 ELSE CHOOSE j \in hits : \A k \in hits : j <= k

(* last index <= i of s whose element is in S, 0 when there is none *)
PrevIn(s, S, i) ==
    LET hits == {j \in 1..i : s[j] \in S}
    IN  IF hits = {} THEN 0 ELSE CHOOSE j \in hits : \A k \in hits : j >= k

(* String.prototype.trim *)
Trim(s) ==
    LET solid == {i \in 1..Len(s) : ~IsSpace(s[i])}
    IN  IF solid = {} THEN <<>>
        ELSE SubSeq(s, CHOOSE i \in solid : \A k \in solid : i <= k,
                       CHOOSE i \in solid : \A k \in solid : i >= k)

(* Array.prototype.join *)
Join(list, sep) ==
    Concat([i \in 1..Len(list) |-> IF i = 1 THEN list[i] ELSE sep \o list[i]])

(* String.prototype.split on a set of one-lexeme separators, by halves:    *)
(* the last part of the left half and the first part of the right half     *)
(* are one part.                                                           *)
RECURSIVE Split(_, _)
Split(s, seps) ==
    IF Len(s) = 0 THEN << <<>> >>
    ELSE IF Len(s) = 1 THEN (IF s[1] \in seps THEN << <<>>, <<>> >> ELSE <<s>>)
    ELSE LET m == Len(s) \div 2
             l == Split(SubSeq(s, 1, m), seps)
             r == Split(SubSeq(s, m + 1, Len(s)), seps)
         IN  SubSeq(l, 1, Len(l) - 1) \o <<l[Len(l)] \o r[1]>> \o Tail(r)

(* s.replace(/re/g, ...) for a pattern that matches whole lexemes: every   *)
(* lexeme t is replaced by F[t]                                            *)
MapLex(s, F) == Concat([i \in 1..Len(s) |-> F[s[i]]])

AllLexemes == TagLexemes \cup TextLexemes

(* stripHtml, lines 591-603, one replace after the other *)
BrToNewline == [t \in AllLexemes |-> IF t = "<br>" THEN <<"\n">> ELSE <<t>>]
PCloseTo(nl) == [t \in AllLexemes |-> IF t = "</p>" THEN nl ELSE <<t>>]
DropTags == [t \in AllLexemes |-> IF IsTag(t) THEN <<>> ELSE <<t>>]
DecodeNbsp == [t \in AllLexemes |-> IF t = "&nbsp;" THEN <<" ">> ELSE <<t>>]
DecodeAmp == [t \in AllLexemes |-> IF t = "&amp;" THEN <<"&">> ELSE <<t>>]

DecodeEntities(s) == MapLex(MapLex(s, DecodeNbsp), DecodeAmp)

stripHtml(s) ==
    Trim(DecodeEntities(
        MapLex(MapLex(MapLex(s, BrToNewline), PCloseTo(<<"\n", "\n">>)),
               DropTags)))

(* s.replace(/[ \t]+\n/g, '\n'): a space goes when the run of spaces it   *)
(* is in runs up to a newline                                              *)
DropSpacesBeforeNewline(s) ==
    LET Next(i) == NextIn(s, AllLexemes \ {" "}, i)
        Gone(i) == s[i] = " " /\ Next(i) # 0 /\ s[Next(i)] = "\n"
    IN  Concat([i \in 1..Len(s) |-> IF Gone(i) THEN <<>> ELSE <<s[i]>>])

(* s.replace(/\n{3,}/g, '\n\n'): of a run of three or more newlines the    *)
(* first two stay                                                          *)
CollapseNewlines(s) ==
    LET Before(i) == PrevIn(s, AllLexemes \ {"\n"}, i)
        After(i) == LET j == NextIn(s, AllLexemes \ {"\n"}, i)
                    IN  IF j = 0 THEN Len(s) + 1 ELSE j
        Gone(i) == /\ s[i] = "\n"
                   /\ After(i) - Before(i) - 1 >= 3
                   /\ i - Before(i) > 2
    IN  Concat([i \in 1..Len(s) |-> IF Gone(i) THEN <<>> ELSE <<s[i]>>])

(* htmlToTextBlock, lines 323-340 *)
htmlToTextBlock(s) ==
    Trim(CollapseNewlines(DropSpacesBeforeNewline(
        DecodeEntities(
            MapLex(MapLex(MapLex(s, BrToNewline), PCloseTo(<<"\n">>)),
                   DropTags)))))

(* All matches of /<open[^>]*>([\s\S]*?)<\/close>/g, from position i on,  *)
(* as [from, to] index pairs of the whole matches.  A match runs from an   *)
(* opening tag to the nearest closing tag after it, and the search goes    *)
(* on behind that closing tag: an opening tag starts a match when a        *)
(* closing tag follows it and no opening tag stands between it and the     *)
(* closing tag (or the start of the search) before it.                     *)
BlockMatches(h, opens, close, i) ==
    LET End(a) == NextIn(h, {close}, a + 1)
        Starts(a) ==
            /\ h[a] \in opens
            /\ End(a) # 0
            /\ LET c == PrevIn(h, {close}, a - 1)
                   from == IF c < i THEN i ELSE c + 1
               IN  \A o \in from..(a - 1) : h[o] \notin opens
    IN  Concat([k \in 1..(Len(h) - i + 1) |->
                  LET a == k + i - 1
                  IN  IF Starts(a) THEN <<[from |-> a, to |-> End(a)]>>
                      ELSE <<>>])

Whole(h, m) == SubSeq(h, m.from, m.to)
Inner(h, m) == SubSeq(h, m.from + 1, m.to - 1)

PreOpens == {"<pre>", "<pre class=\"tK8GG\">"}

----------------------------------------------------------------------------
(* parser.js: classifier helpers *)

TabType == [CHORD |-> "Chord", FINGERSTYLE |-> "Fingerstyle", TAB |-> "Tab",
            UNKNOWN |-> "Unknown"]

(* Number of matches of tabLineRegex /[eEBGDA]\|[-0-9h/\\pbr~()\s]+\|/g *)
CountTabLines(s) ==
    Cardinality({i \in 1..Len(s) : s[i] \in {"e|-0-|", "e|-0h2-|"}})

(* Number of matches of CHORD_REGEX (line 24): a chord name between two    *)
(* word boundaries.  "Am" matches when no word character touches it, the   *)
(* Am of "[Am]" always does; no other lexeme holds a match.                *)
ChordAt(s, i) ==
    \/ s[i] = "[Am]"
    \/ /\ s[i] \in {"Am", "G"}
       /\ i > 1 => ~EndsWord(s[i - 1])
       /\ i < Len(s) => ~StartsWord(s[i + 1])

(* The matches are counted by name: equal chord names count once *)
CountChords_Distinct(s) ==
    Cardinality({s[i] : i \in {k \in 1..Len(s) : ChordAt(s, k)}})

CountChords(s) == Cardinality({i \in 1..Len(s) : ChordAt(s, i)})

(* content.includes('h') || includes('p') || includes('/') || includes('\\') *)
HasComplexPatterns(s) ==
    \E i \in 1..Len(s) :
        s[i] \in {"e|-0h2-|", "Capo 3", "/", "\\n", "&nbsp;", "&amp;", "<h1>",
                  "click here", "copyright",
                  "<pre>", "<pre class=\"tK8GG\">", "<script>", "</pre>",
                  "</code>", "</tt>", "</div>", "</script>", "</title>",
                  "</h1>", "</a>", "</p>"}

MinTabLines == 4
MinFingerstyleLines == 10
MinChords == 3

(* Empty content is given the default type Chord instead of Unknown *)
detectTabType_DefaultChord(content) ==
    IF content = <<>> THEN TabType.CHORD
    ELSE IF CountTabLines(content) >= MinTabLines THEN TabType.TAB
    ELSE IF CountChords(content) >= MinChords THEN TabType.CHORD
    ELSE TabType.UNKNOWN

(* The chord test is made before the tab-line test *)
detectTabType_ChordFirst(content) ==
    IF content = <<>> THEN TabType.UNKNOWN
    ELSE IF CountChords(content) >= MinChords THEN TabType.CHORD
    ELSE IF CountTabLines(content) >= MinTabLines
         THEN IF HasComplexPatterns(content)
                 /\ CountTabLines(content) >= MinFingerstyleLines
              THEN TabType.FINGERSTYLE
              ELSE TabType.TAB
    ELSE TabType.UNKNOWN

(* detectTabType, lines 540-563 *)
detectTabType(content) ==
    IF content = <<>> THEN TabType.UNKNOWN
    ELSE IF CountTabLines(content) >= MinTabLines
         THEN IF HasComplexPatterns(content)
                 /\ CountTabLines(content) >= MinFingerstyleLines
              THEN TabType.FINGERSTYLE
              ELSE TabType.TAB
    ELSE IF CountChords(content) >= MinChords THEN TabType.CHORD
    ELSE TabType.UNKNOWN

(* extractCapo, lines 568-574: /capo[:\s]*(\d+)/i *)
extractCapo(text) ==
    IF \E i \in 1..Len(text) : text[i] = "Capo 3"
    THEN [num |-> 3] ELSE Null

(* extractKey, lines 579-586: /^[A-G][#b]?(m|maj|min)?/m, the first line   *)
(* that begins with a chord root.                                          *)
LineStart(s, i) == i = 1 \/ s[i - 1] = "\n"

KeyOf(t) ==
    IF t = "Capo 3" THEN <<"C">>
    ELSE IF t = "Artist Name" THEN <<"A">>
    ELSE <<t>>

extractKey(content) ==
    LET hits == {i \in 1..Len(content) :
                    /\ LineStart(content, i)
                    /\ content[i] \in {"Am", "G", "Capo 3", "Artist Name"}}
    IN  IF hits = {} THEN Null
        ELSE [str |-> KeyOf(content[CHOOSE i \in hits : \A k \in hits : i <= k])]

(* html.match(/<open[^>]*>([^<]+)<\/close>/i): the first opening tag that  *)
(* is followed by at least one character other than '<' and then the      *)
(* closing tag; the captured text, or Null.                                *)
RECURSIVE TextElement(_, _, _, _)
TextElement(h, open, close, i) ==
    LET a == NextIn(h, {open}, i)
        b == IF a = 0 THEN 0 ELSE NextIn(h, TagLexemes, a + 1)
    IN  IF a = 0 THEN Null
        ELSE IF b # 0 /\ b > a + 1 /\ h[b] = close
             THEN [text |-> SubSeq(h, a + 1, b - 1)]
        ELSE TextElement(h, open, close, a + 1)

TitleMatch(h) == TextElement(h, "<title>", "</title>", 1)
H1Match(h) == TextElement(h, "<h1>", "</h1>", 1)

(* parts[k]?.trim() || '' *)
PartOr(parts, k) == IF k <= Len(parts) THEN Trim(parts[k]) ELSE <<>>

OrUnknown(t) == IF t = <<>> THEN <<"Unknown">> ELSE t

ParseableFloor == 50

(* extractTitleFromHtml, lines 618-624 *)
extractTitleFromHtml(h) ==
    LET m == TitleMatch(h)
    IN  IF m = Null THEN <<"Unknown">>
        ELSE OrUnknown(PartOr(Split(m.text, {"-"}), 1))

----------------------------------------------------------------------------
(* parser.js: the extractors.  Every extractor yields the record it        *)
(* returns (res) and the list of extractors that ran (ran).                *)

(* Applies f to every element of a list: Array.prototype.map *)
MapSeq(list, f(_)) == [i \in 1..Len(list) |-> f(list[i])]

(* Array.prototype.filter *)
FilterSeq(list, keep(_)) ==
    Concat([i \in 1..Len(list) |->
              IF keep(list[i]) THEN <<list[i]>> ELSE <<>>])

(* Inserts text t into a list sorted by descending length, behind every   *)
(* element of the same length (Array.prototype.sort is stable).            *)
RECURSIVE InsertByLen(_, _)
InsertByLen(sorted, t) ==
    IF sorted = <<>> THEN <<t>>
    ELSE IF TextLen(Head(sorted)) >= TextLen(t)
         THEN <<Head(sorted)>> \o InsertByLen(Tail(sorted), t)
    ELSE <<t>> \o sorted

(* list.sort((a, b) => b.length - a.length) *)
RECURSIVE SortByLenDesc(_)
SortByLenDesc(list) ==
    IF list = <<>> THEN <<>>
    ELSE InsertByLen(SortByLenDesc(SubSeq(list, 1, Len(list) - 1)),
                     list[Len(list)])

DropPreTags ==
    [t \in AllLexemes |-> IF t \in PreOpens \cup {"</pre>"} THEN <<>> ELSE <<t>>]
DropCodeTags ==
    [t \in AllLexemes |-> IF t \in {"<code>", "</code>"} THEN <<>> ELSE <<t>>]

(* The text of all blocks of one tag, stripped and joined by a blank line *)
BlocksText(h, opens, close, drop) ==
    LET StripOne(m) == stripHtml(MapLex(Whole(h, m), drop))
    IN  Join(MapSeq(BlockMatches(h, opens, close, 1), StripOne),
             <<"\n", "\n">>)

(* titleMatch ? titleMatch[1].split(sep) : [] *)
PartsOf(m, seps) == IF m = Null THEN <<>> ELSE Split(m.text, seps)

TitleParts(h, seps) == PartsOf(TitleMatch(h), seps)

(* m ? stripHtml(m[1]) : '' *)
MatchStripped(m) == IF m = Null THEN <<>> ELSE stripHtml(m.text)

(* Lines 110-119: the <code> blocks are taken when the text of the <pre>   *)
(* blocks is empty: if (!content)                                          *)
CodeIfEmpty(h, fromPre) ==
    IF fromPre # <<>> THEN fromPre
    ELSE BlocksText(h, {"<code>"}, "</code>", DropCodeTags)

GenericContent(h) ==
    CodeIfEmpty(h, BlocksText(h, PreOpens, "</pre>", DropPreTags))

(* The return statement of parseGeneric, lines 130-138 *)
GenericRecord(h, parts, content) ==
    [res |-> [title |-> OrUnknown(PartOr(parts, 1)),
              artist |-> PartOr(parts, 2),
              type |-> detectTabType(content),
              content |-> Trim(content),
              capo |-> extractCapo(content \o <<" ">> \o h),
              key |-> extractKey(content),
              parseable |-> TextLen(content) > ParseableFloor],
     ran |-> <<"parseGeneric">>]

(* parseGeneric, lines 88-139 *)
parseGeneric(h) == GenericRecord(h, TitleParts(h, {"-"}), GenericContent(h))

(* return parseGeneric(html, url) inside the extractor called name *)
Via(name, out) == [res |-> out.res, ran |-> <<name>> \o out.ran]

(* /by\s*<a[^>]*>([^<]+)<\/a>/i *)
RECURSIVE ArtistLink(_, _)
ArtistLink(h, i) ==
    LET a == NextIn(h, {"by"}, i)
        b == IF a = 0 THEN 0 ELSE NextIn(h, AllLexemes \ {" ", "\n"}, a + 1)
        c == IF b = 0 THEN 0 ELSE NextIn(h, TagLexemes, b + 1)
    IN  IF a = 0 THEN Null
        ELSE IF b # 0 /\ h[b] = "<a>" /\ c > b + 1 /\ h[c] = "</a>"
             THEN [text |-> SubSeq(h, b + 1, c - 1)]
        ELSE ArtistLink(h, a + 1)

(* Lines 147-150: the stripped inner html of the first tK8GG block *)
FirstStripped(h, ms) ==
    IF ms = <<>> THEN <<>> ELSE stripHtml(Inner(h, ms[1]))

UGContent(h) ==
    FirstStripped(h, BlockMatches(h, {"<pre class=\"tK8GG\">"}, "</pre>", 1))

(* Lines 177-194 *)
UGRecord(h, content, title, artist) ==
    IF content = <<>>
    THEN Via("parseUltimateGuitar", parseGeneric(h))
    ELSE [res |-> [title |-> OrUnknown(title),
                   artist |-> artist,
                   type |-> detectTabType(content),
                   content |-> Trim(content),
                   capo |-> extractCapo(h),
                   key |-> extractKey(content),
                   parseable |-> TextLen(content) > ParseableFloor],
          ran |-> <<"parseUltimateGuitar">>]

(* parseUltimateGuitar, lines 144-195 *)
parseUltimateGuitar(h) ==
    UGRecord(h, UGContent(h), MatchStripped(H1Match(h)),
             MatchStripped(ArtistLink(h, 1)))

SongsterrRecord(parts) ==
    [res |-> [title |-> PartOr(parts, 2),
              artist |-> ReplaceFirst(PartOr(parts, 1), <<" ", "Tab">>),
              type |-> TabType.TAB,
              content |-> <<>>,
              capo |-> Null,
              key |-> Null,
              parseable |-> FALSE],
     ran |-> <<"parseSongsterr">>]

(* parseSongsterr, lines 200-221 *)
parseSongsterr(h) == SongsterrRecord(TitleParts(h, {"-"}))

ChordifyRecord(parts) ==
    [res |-> [title |-> PartOr(parts, 1),
              artist |-> PartOr(parts, 2),
              type |-> TabType.CHORD,
              content |-> <<>>,
              capo |-> Null,
              key |-> Null,
              parseable |-> FALSE],
     ran |-> <<"parseChordify">>]

(* The record is returned without its capo and key fields *)
parseChordify_NoCapoKey(h) ==
    [res |-> [title |-> PartOr(TitleParts(h, {"-"}), 1),
              artist |-> PartOr(TitleParts(h, {"-"}), 2),
              type |-> TabType.CHORD,
              content |-> <<>>,
              parseable |-> FALSE],
     ran |-> <<"parseChordify">>]

(* parseChordify, lines 226-247 *)
parseChordify(h) == ChordifyRecord(TitleParts(h, {"-"}))

JTotalFloor == 200

(* The candidate text blocks of parseJTotal, lines 280-299: every <tt>     *)
(* block, then every <pre> block, whose inner html is not empty.           *)
JTotalCandidates(h) ==
    LET NonEmpty(m) == Inner(h, m) # <<>>
        Text(m) == htmlToTextBlock(Inner(h, m))
    IN  MapSeq(FilterSeq(BlockMatches(h, {"<tt>"}, "</tt>", 1)
                            \o BlockMatches(h, PreOpens, "</pre>", 1),
                         NonEmpty),
               Text)

(* ranked[0] || '' *)
FirstOrEmpty(list) == IF list = <<>> THEN <<>> ELSE list[1]

(* The long candidates are joined instead of ranked *)
JTotalContent_Joined(h) ==
    LET LongEnough(t) == TextLen(t) >= JTotalFloor
    IN  Join(FilterSeq(MapSeq(JTotalCandidates(h), Trim), LongEnough),
             <<"\n">>)

(* lines 302-305 *)
JTotalContent(h) ==
    LET LongEnough(t) == TextLen(t) >= JTotalFloor
    IN  FirstOrEmpty(SortByLenDesc(
            FilterSeq(MapSeq(JTotalCandidates(h), Trim), LongEnough)))

(* Lines 256-274 and 307-316.  No lexeme is a full-width parenthesis, so   *)
(* parenMatch is null and the title is the part before the first '/'.      *)
JTotalRecord(h, m, content) ==
    [res |-> [title |-> OrUnknown(Trim(Split(IF m = Null THEN <<>>
                                             ELSE m.text, {"/"})[1])),
              artist |-> PartOr(PartsOf(m, {"-"}), 2),
              type |-> detectTabType(content),
              content |-> Trim(content),
              capo |-> extractCapo(h),
              key |-> extractKey(content),
              parseable |-> TextLen(content) > ParseableFloor,
              source |-> "j-total.net"],
     ran |-> <<"parseJTotal">>]

(* parseJTotal, lines 253-317 *)
parseJTotal(h) == JTotalRecord(h, TitleMatch(h), JTotalContent(h))

MinWikiLines == 5
MinChordLines == 10

(* text.split('\n').length *)
LineCount(t) == Len(Split(t, {"\n"}))

(* /[A-G][#b]?(m|maj|min|dim|aug|sus)?[0-9]?/.test(s): s holds a capital   *)
(* letter A..G                                                             *)
HasChordLetter(s) ==
    \E i \in 1..Len(s) :
        s[i] \in {"Am", "G", "[Am]", "Capo 3", "Artist Name", "SiteBrand"}

(* Method 2 of parseChordWiki, lines 376-387 *)
WikiContent(h) ==
    LET StripOne(m) == stripHtml(Whole(h, m))
        LongEnough(t) == LineCount(t) > MinWikiLines
    IN  Join(FilterSeq(MapSeq(BlockMatches(h, {"<div class=\"wiki\">"},
                                           "</div>", 1),
                              StripOne),
                       LongEnough),
             <<"\n", "\n">>)

(* Lines 397-399: the stripped chord lines, when there are more than ten *)
JoinIfMany(chordLines) ==
    IF Len(chordLines) > MinChordLines THEN Join(chordLines, <<"\n">>)
    ELSE <<>>

(* Method 3 of parseChordWiki, lines 390-400 *)
ChordLinesContent(h) ==
    LET IsChordLine(l) == HasChordLetter(stripHtml(l))
    IN  JoinIfMany(MapSeq(FilterSeq(Split(MapLex(h, BrToNewline), {"\n"}),
                                    IsChordLine),
                          stripHtml))

(* Lines 366-400: the three methods in order, each tried only while the    *)
(* content is still empty.                                                 *)
FirstMethod(h, m1, m2) ==
    IF m1 # <<>> THEN m1
    ELSE IF m2 # <<>> THEN m2
    ELSE ChordLinesContent(h)

ChordWikiContent(h) ==
    FirstMethod(h, BlocksText(h, PreOpens, "</pre>", DropPreTags),
                WikiContent(h))

(* h1Match ? stripHtml(h1Match[1]) : titleParts[0]?.trim() *)
H1OrPart(h1, parts) ==
    IF h1 # Null THEN stripHtml(h1.text) ELSE PartOr(parts, 1)

(* Lines 402-411.  detectTabType never returns a falsy value, so the       *)
(* default "|| TabType.CHORD" is never taken.                              *)
ChordWikiRecord(h, parts, h1, content) ==
    [res |-> [title |-> OrUnknown(H1OrPart(h1, parts)),
              artist |-> PartOr(parts, 2),
              type |-> detectTabType(content),
              content |-> Trim(content),
              capo |-> extractCapo(h),
              key |-> extractKey(content),
              parseable |-> TextLen(content) > ParseableFloor,
              source |-> "chordwiki.jpn.org"],
     ran |-> <<"parseChordWiki">>]

(* parseChordWiki, lines 346-412 *)
parseChordWiki(h) ==
    ChordWikiRecord(h, TitleParts(h, {"-"}), H1Match(h), ChordWikiContent(h))

MinScriptLen == 50
MinStringLen == 20
MaxChunks == 200
UFretFloor == 100

(* sc.match(...) of line 481: the double-quoted string literals of a      *)
(* script body, each without its quotes (raw.slice(1, -1)).                *)
StringLiterals(sc, i) ==
    LET quotes == {j \in i..Len(sc) : sc[j] = "\""}
        Opens(a) == /\ a \in quotes
                    /\ Cardinality({j \in quotes : j <= a}) % 2 = 1
                    /\ NextIn(sc, {"\""}, a + 1) # 0
    IN  Concat([k \in 1..Len(sc) |->
                  IF Opens(k)
                  THEN <<SubSeq(sc, k + 1, NextIn(sc, {"\""}, k + 1) - 1)>>
                  ELSE <<>>])

(* unescapeJsString, lines 509-519 *)
UnescapeNewline == [t \in AllLexemes |-> IF t = "\\n" THEN <<"\n">> ELSE <<t>>]

(* The escape sequences are left as they are *)
unescapeJsString_Raw(s) == s

unescapeJsString(s) == MapLex(s, UnescapeNewline)

(* looksLikeChordLine, lines 525-528 *)
looksLikeChordLine(s) == \E i \in 1..Len(s) : s[i] = "[Am]"

(* [...new Set(chunks)]: first occurrences, in order *)
Unique(list) ==
    Concat([i \in 1..Len(list) |->
              IF \E j \in 1..(i - 1) : list[j] = list[i] THEN <<>>
              ELSE <<list[i]>>])

(* The ranked list is left in descending order *)
Reverse_Keep(list) == list

(* Array.prototype.reverse *)
Reverse(list) == [i \in 1..Len(list) |-> list[Len(list) + 1 - i]]

(* Lines 468-488: the chord-like string literals of the big scripts *)
ScriptChunks(h) ==
    LET BigEnough(m) == TextLen(Inner(h, m)) > MinScriptLen
        Literals(m) == MapSeq(StringLiterals(Inner(h, m), 1), unescapeJsString)
        Keep(s) == TextLen(s) >= MinStringLen /\ looksLikeChordLine(s)
    IN  FilterSeq(Concat(MapSeq(FilterSeq(BlockMatches(h, {"<script>"},
                                                       "</script>", 1),
                                          BigEnough),
                                Literals)),
                  Keep)

(* .slice(0, 200) *)
Top(ranked) ==
    SubSeq(ranked, 1, IF Len(ranked) < MaxChunks THEN Len(ranked)
                      ELSE MaxChunks)

(* extractChordProFromScripts, lines 468-503 *)
extractChordProFromScripts(h) ==
    Trim(CollapseNewlines(
        Join(Reverse(Top(SortByLenDesc(Unique(ScriptChunks(h))))), <<"\n">>)))

(* Lines 447-461: script content under the floor falls back to             *)
(* parseGeneric.                                                           *)
UFretRecord(h, parts, h1, content, floor) ==
    IF content = <<>> \/ TextLen(content) < floor
    THEN Via("parseUFret", parseGeneric(h))
    ELSE [res |-> [title |-> OrUnknown(H1OrPart(h1, parts)),
                   artist |-> PartOr(parts, 2),
                   type |-> TabType.CHORD,
                   content |-> Trim(content),
                   capo |-> extractCapo(h),
                   key |-> extractKey(content),
                   parseable |-> TextLen(content) > ParseableFloor,
                   source |-> "ufret.jp"],
          ran |-> <<"parseUFret">>]

(* The fallback is taken only for empty script content: the floor of 100  *)
(* characters is not applied.                                              *)
parseUFret_NoFloor(h) ==
    UFretRecord(h, TitleParts(h, {"/"}), H1Match(h),
                extractChordProFromScripts(h), 0)

(* parseUFret, lines 419-462 *)
parseUFret(h) ==
    UFretRecord(h, TitleParts(h, {"/"}), H1Match(h),
                extractChordProFromScripts(h), UFretFloor)

(* parseGuitarTabsCc, lines 533-535 *)
parseGuitarTabsCc(h) == Via("parseGuitarTabsCc", parseGeneric(h))

(* The parsers table of parseTabFromHtml, lines 53-65, in declaration order *)
parsers ==
    << [key |-> P_jtotal, fn |-> "parseJTotal"],
       [key |-> P_chordwiki, fn |-> "parseChordWiki"],
       [key |-> P_ufret, fn |-> "parseUFret"],
       [key |-> P_gakufu, fn |-> "parseGeneric"],
       [key |-> P_ug, fn |-> "parseUltimateGuitar"],
       [key |-> P_songsterr, fn |-> "parseSongsterr"],
       [key |-> P_chordify, fn |-> "parseChordify"],
       [key |-> P_guitartabs, fn |-> "parseGuitarTabsCc"] >>

FirstIncluded(table, h) ==
    IF \E i \in 1..Len(table) : Includes(h, table[i].key)
    THEN CHOOSE i \in 1..Len(table) :
            /\ Includes(h, table[i].key)
            /\ \A k \in 1..(i - 1) : ~Includes(h, table[k].key)
    ELSE 0

(* A host name no key matches is given the first parser of the table      *)
(* instead of parseGeneric.                                                *)
SelectParser_FirstAsDefault(domain) ==
    LET own == OwnIndex(parsers, domain)
        sub == FirstIncluded(parsers, domain)
    IN  IF own # 0 THEN parsers[own].fn
        ELSE IF sub # 0 THEN parsers[sub].fn
        ELSE parsers[1].fn

(* Lines 67-78: parsers[domain], then the first key the domain includes.   *)
(* parsers[domain] also finds the inherited properties: "constructor" is   *)
(* the function Object, "__proto__" is Object.prototype.                   *)
SelectParser(domain) ==
    LET own == OwnIndex(parsers, domain)
        sub == FirstIncluded(parsers, domain)
    IN  IF own # 0 THEN parsers[own].fn
        ELSE IF domain = S_constructor THEN "Object"
        ELSE IF domain = S_proto THEN "Object.prototype"
        ELSE IF sub # 0 THEN parsers[sub].fn
        ELSE "parseGeneric"                     \* parser || parseGeneric

Return(v, r) == [kind |-> "return", value |-> v, ran |-> r]
Throw == [kind |-> "throw", ran |-> <<>>]

ReturnOf(out) == Return(out.res, out.ran)

(* Line 80: (parser || parseGeneric)(html, url) *)
RunParser(fn, h) ==
    IF fn = "Object"                            \* Object(html, url)
    THEN Return([stringObject |-> h], <<>>)
    ELSE IF fn = "Object.prototype"             \* not a function
    THEN Throw
    ELSE ReturnOf(CASE fn = "parseJTotal" -> parseJTotal(h)
                    [] fn = "parseChordWiki" -> parseChordWiki(h)
                    [] fn = "parseUFret" -> parseUFret(h)
                    [] fn = "parseGeneric" -> parseGeneric(h)
                    [] fn = "parseUltimateGuitar" -> parseUltimateGuitar(h)
                    [] fn = "parseSongsterr" -> parseSongsterr(h)
                    [] fn = "parseChordify" -> parseChordify(h)
                    [] fn = "parseGuitarTabsCc" -> parseGuitarTabsCc(h))

(* The redirect test compares with the wrong parse mode *)
IsRedirect_WrongMode(cfg) ==
    "parseMode" \in DOMAIN cfg /\ cfg.parseMode = ParseMode.SERVER

(* siteConfig?.parseMode === ParseMode.REDIRECT, line 37 *)
IsRedirect(cfg) ==
    "parseMode" \in DOMAIN cfg /\ cfg.parseMode = ParseMode.REDIRECT

(* parseTabFromHtml, lines 32-83 *)
parseTabFromHtml(table, h, u) ==
    IF ~u.valid THEN Throw                      \* new URL(url) throws
    ELSE IF IsRedirect(getSiteConfig(table, u))
    THEN Return([title |-> extractTitleFromHtml(h),
                 artist |-> <<>>,
                 type |-> TabType.UNKNOWN,
                 content |-> <<>>,
                 capo |-> Null,
                 key |-> Null,
                 parseable |-> FALSE,
                 redirectOnly |-> TRUE,
                 message |-> "redirect"], <<>>)
    ELSE RunParser(SelectParser(StripWww(u.hostname)), h)

----------------------------------------------------------------------------
(* search.js: validateContent, lines 648-666 *)

MinValidLines == 20
MinRatioPercent == 5

(* content.split('\n').filter(line => line.trim()).length *)
CountNonBlank(lines) ==
    Cardinality({i \in 1..Len(lines) : Trim(lines[i]) # <<>>})

(* content.split(/\s+/).length: one more than the number of whitespace    *)
(* runs; the lexeme "Capo 3" holds a run of its own.                       *)
TokenCount(s) ==
    1 + Cardinality({i \in 1..Len(s) :
                       IsSpace(s[i]) /\ (i = 1 \/ ~IsSpace(s[i - 1]))})
      + Cardinality({i \in 1..Len(s) :
                       s[i] \in {"Capo 3", "Song Name", "Artist Name",
                                 "click here"}})

(* Math.round(chordRatio * 100), the returned chordRatio in hundredths *)
RoundedPercent(chords, tokens) == (200 * chords + tokens) \div (2 * tokens)

(* valid is computed from the rounded chordRatio the record returns *)
ValidationRecord_RoundedTest(lines, chords, tokens) ==
    [valid |-> lines >= MinValidLines
                 /\ RoundedPercent(chords, tokens) > MinRatioPercent,
     lines |-> lines,
     chordRatio |-> RoundedPercent(chords, tokens)]

(* Lines 661-665.  chordRatio > 0.05 is tested on the quotient itself.     *)
ValidationRecord(lines, chords, tokens) ==
    [valid |-> lines >= MinValidLines
                 /\ 100 * chords > MinRatioPercent * tokens,
     lines |-> lines,
     chordRatio |-> RoundedPercent(chords, tokens)]

validateContent(content) ==
    IF content = <<>> THEN [valid |-> FALSE, lines |-> 0, chordRatio |-> 0]
    ELSE ValidationRecord(CountNonBlank(Split(content, {"\n"})),
                          CountChords(content), TokenCount(content))

----------------------------------------------------------------------------
(* search.js, lines 437-558: the site table with three parse modes *)

P_azchords == <<"a","z","c","h","o","r","d","s",".","c","o","m">>
P_chordie == <<"c","h","o","r","d","i","e",".","c","o","m">>

ParseMode_search ==
    [SERVER |-> "server", CLIENT |-> "client", REDIRECT |-> "redirect"]

Entry_search(k, mode, prio, tier, type, lang) ==
    [key |-> k,
     value |-> [parseMode |-> mode, priority |-> prio, tier |-> tier,
                type |-> type, lang |-> lang]]

SITE_CONFIG_search ==
    << Entry_search(P_jtotal, ParseMode_search.SERVER, 100, 1, "Chord", "ja"),
       Entry_search(P_guitartabs, ParseMode_search.SERVER, 45, 2, "Tab", "en"),
       Entry_search(P_azchords, ParseMode_search.SERVER, 40, 2, "Chord", "en"),
       Entry_search(P_chordie, ParseMode_search.SERVER, 40, 2, "Chord", "en"),
       Entry_search(P_chordwiki, ParseMode_search.CLIENT, 90, 2, "Chord", "ja"),
       Entry_search(P_ufret, ParseMode_search.CLIENT, 70, 2, "Chord", "ja"),
       Entry_search(P_ug, ParseMode_search.CLIENT, 60, 2, "Chord", "en"),
       Entry_search(P_songsterr, ParseMode_search.REDIRECT, 40, 3, "Tab", "en"),
       Entry_search(P_chordify, ParseMode_search.REDIRECT, 30, 3, "Chord", "en"),
       Entry_search(P_gakufu, ParseMode_search.REDIRECT, 20, 3, "Chord", "ja") >>

(* The test accepts every profile that has a parse mode *)
IsServer_AnyMode(cfg) == "parseMode" \in DOMAIN cfg

(* config?.parseMode === ParseMode.SERVER, parser.js line 612 *)
IsServer(cfg) ==
    "parseMode" \in DOMAIN cfg /\ cfg.parseMode = ParseMode.SERVER

(* isParseable, parser.js lines 609-613 *)
isParseable(table, u) == IsServer(getSiteConfig(table, u))

----------------------------------------------------------------------------
(* search.js: extractTitleArtist, lines 330-364.  A raw title is one line  *)
(* without full-width brackets, so the pattern of line 338 never matches.  *)

Solid == AllLexemes \ {" ", "\n"}

(* Lexemes that begin with one of the site names of line 335 *)
SiteNames == {"Songsterr", "Tab"}

(* Lexemes that are one of the type words of line 361 *)
TypeWords == {"Tab"}

(* Index at which the whitespace that runs up to index i begins *)
RunStart(s, i) == PrevIn(s, Solid, i - 1) + 1

(* The smallest member of a set of indexes, 0 for the empty set *)
FirstOf(hits) ==
    IF hits = {} THEN 0 ELSE CHOOSE i \in hits : \A k \in hits : i <= k

(* Line 335: the first dash that a site name follows is cut off with the   *)
(* whitespace before it and everything behind it                           *)
SiteNameAt(s) ==
    FirstOf({i \in 1..Len(s) :
               /\ s[i] = "-"
               /\ NextIn(s, Solid, i + 1) # 0
               /\ s[NextIn(s, Solid, i + 1)] \in SiteNames})

CutAt(s, i) == IF i = 0 THEN s ELSE SubSeq(s, 1, RunStart(s, i) - 1)

StripSiteName(s) == CutAt(s, SiteNameAt(s))

(* Line 347: /(.+?)\s+by\s+(.+)/i *)
ByAt(s) ==
    FirstOf({i \in 3..(Len(s) - 2) :
               s[i] = "by" /\ IsSpace(s[i - 1]) /\ IsSpace(s[i + 1])})

(* Line 355: /(.+?)\s*[-]\s*(.+)/ *)
DashAt(s) == FirstOf({i \in 2..(Len(s) - 1) : s[i] = "-"})

(* Line 361: each type word goes, with the whitespace around it, for one   *)
(* blank; then trim()                                                      *)
CleanTypeWords(s) ==
    Trim(Concat([i \in 1..Len(s) |->
        IF s[i] \in TypeWords THEN <<" ">>
        ELSE IF /\ IsSpace(s[i])
                /\ \/ /\ PrevIn(s, Solid, i) # 0
                      /\ s[PrevIn(s, Solid, i)] \in TypeWords
                   \/ /\ NextIn(s, Solid, i) # 0
                      /\ s[NextIn(s, Solid, i)] \in TypeWords
        THEN <<>>
        ELSE <<s[i]>>]))

Before(s, i) == Trim(SubSeq(s, 1, i - 1))
After(s, i) == Trim(SubSeq(s, i + 1, Len(s)))

(* Lines 346-363 for a title whose site name is gone, by and dash being    *)
(* the places of the matches of lines 347 and 355                          *)
SplitTitle(t, by, dash) ==
    IF by # 0 THEN [title |-> Before(t, by), artist |-> After(t, by)]
    ELSE IF dash # 0
    THEN [title |-> CleanTypeWords(After(t, dash)), artist |-> Before(t, dash)]
    ELSE [title |-> CleanTypeWords(t), artist |-> <<>>]

SplitStripped(t) == SplitTitle(t, ByAt(t), DashAt(t))

extractTitleArtist(rawTitle) == SplitStripped(StripSiteName(rawTitle))

----------------------------------------------------------------------------
(* Inputs of the registry specification *)

MaxLabels == 3

HostAtoms == {WWW, S_x, S_blog, S_fc2, K_blogfc2, K_tabguitar, K_kotaro,
              P_jtotal}

RECURSIVE HostsOfLen(_)
HostsOfLen(n) ==
    IF n = 0 THEN {<<>>}
    ELSE {a \o r : a \in HostAtoms, r \in HostsOfLen(n - 1)}

RegistryHosts ==
    UNION {HostsOfLen(n) : n \in 1..MaxLabels}
    \cup {S_constructor, S_proto, WWW \o S_constructor, S_example}

RegistryUrls == {InvalidUrl} \cup {Url(h) : h \in RegistryHosts}

NoValue == [none |-> TRUE]

InitRegistry ==
    /\ url \in RegistryUrls
    /\ html = <<>>
    /\ op = "none"
    /\ result = NoValue
    /\ config = NoValue
    /\ ran = <<>>
    /\ registry = SITE_CONFIG
    /\ request = NoValue
    /\ upstream = NoValue
    /\ previous = NoValue
    /\ importingUrl = NoValue
    /\ rendered = NoValue
    /\ imports = NoValue
    /\ page = NoValue
    /\ transpose = NoValue
    /\ line = NoValue
    /\ displayLine = NoValue
    /\ dbTabs = NoValue
    /\ toggles = NoValue
    /\ isFavorite = NoValue

(* A call of getSiteConfig(url) *)
GetSiteConfig ==
    /\ op = "none"
    /\ config' = getSiteConfig(registry, url)
    /\ op' = "getSiteConfig"
    /\ UNCHANGED <<url, html, result, ran, registry, request, upstream,
                 previous, uiVars>>

NextRegistry == GetSiteConfig

SpecRegistry == InitRegistry /\ [][NextRegistry]_vars

----------------------------------------------------------------------------
(* Inputs of the extraction specification *)

MaxBlocks == 2
EmptyPreRun == 27
ChordLineRun == 11

Block(toks, rep) == [toks |-> toks, rep |-> rep]

(* The pieces html documents are put together from; a piece is a lexeme    *)
(* sequence and the number of times it is repeated.                        *)
Blocks ==
    { Block(<<"<pre>">>, 1),
      Block(<<"<title>", "la", " ", "-", " ", "la", " ", "/", " ", "la",
              "</title>">>, 1),
      Block(<<"<h1>", "la", "</h1>", "by", " ", "<a>", "la", "</a>">>, 1),
      Block(<<"<pre>", "</pre>">>, EmptyPreRun),
      Block(<<"<pre>", "&nbsp;", "<b>", "</pre>">>, 1),
      Block(<<"<pre>", "Am", " ", "Am", " ", "Am", "</pre>">>, 1),
      Block(<<"<pre>", "Am", " ", "lyric60", "\n", "lyric60", "\n", "Am", " ",
              "lyric60", "\n", "[Am]", "lyric60", "<br>", "Capo 3",
              "</pre>">>, 1),
      Block(<<"<tt>", "lyric60", " ", "\n", "\n", "\n", "\n", "lyric60",
              "lyric60", "lyric60", "lyric60", " ", "&amp;", "</tt>">>, 1),
      Block(<<"<code>", "e|-0-|", "\n", "e|-0-|", "\n", "e|-0-|", "\n",
              "e|-0h2-|", "\n", "lyric60", "</code>">>, 1),
      Block(<<"<pre class=\"tK8GG\">", "Am", "\n", "lyric60", "</pre>">>, 1),
      Block(<<"<div class=\"wiki\">", "la", "<br>", "Am", "\n", "la", "\n",
              "la", "\n", "la", "\n", "la", "</div>">>, 1),
      Block(<<"<script>", "la", "\"", "[Am]", "lyric60", "\\n", "lyric60",
              "\"", "\"", "la", "\"", "</script>">>, 1),
      Block(<<"<script>", "\"", "[Am]", "lyric60", "\"", "</script>">>, 1),
      Block(<<"Am", " ", "la", "la", "<br>">>, ChordLineRun) }

Repeat(toks, n) == Concat([i \in 1..n |-> toks])

RECURSIVE DocsOfLen(_)
DocsOfLen(n) ==
    IF n = 0 THEN {<<>>}
    ELSE {Repeat(b.toks, b.rep) \o d : b \in Blocks, d \in DocsOfLen(n - 1)}

Htmls == UNION {DocsOfLen(n) : n \in 0..MaxBlocks}

Dot == <<".">>

ParseHosts ==
    { K_blogfc2, WWW \o K_fingerstyle, S_x \o Dot \o K_blogfc2,
      S_blog \o WWW \o S_fc2, P_jtotal \o Dot \o K_blogfc2,
      P_jtotal, S_music \o P_jtotal, P_chordwiki, P_ufret, P_gakufu,
      WWW \o P_ug, P_songsterr, P_chordify, P_guitartabs,
      S_example, S_constructor, S_proto }

ParseUrls == {InvalidUrl} \cup {Url(h) : h \in ParseHosts}

Init ==
    /\ url \in ParseUrls
    /\ html \in Htmls
    /\ op = "none"
    /\ result = NoValue
    /\ config = NoValue
    /\ ran = <<>>
    /\ registry = SITE_CONFIG
    /\ request = NoValue
    /\ upstream = NoValue
    /\ previous = NoValue
    /\ importingUrl = NoValue
    /\ rendered = NoValue
    /\ imports = NoValue
    /\ page = NoValue
    /\ transpose = NoValue
    /\ line = NoValue
    /\ displayLine = NoValue
    /\ dbTabs = NoValue
    /\ toggles = NoValue
    /\ isFavorite = NoValue

(* What the caller sees: the returned value, or the exception *)
Outcome(out) ==
    IF out.kind = "throw" THEN [kind |-> "throw"]
    ELSE [kind |-> "return", value |-> out.value]

(* A call of parseTabFromHtml(html, url) *)
ParseTabFromHtml ==
    /\ op = "none"
    /\ \E out \in {parseTabFromHtml(registry, html, url)} :
          /\ result' = Outcome(out)
          /\ ran' = out.ran
    /\ op' = "parseTabFromHtml"
    /\ UNCHANGED <<url, html, config, registry, request, upstream,
                 previous, uiVars>>

Next == ParseTabFromHtml

Spec == Init /\ [][Next]_vars

----------------------------------------------------------------------------
(* Inputs of the residue specification: pages of one <pre> block whose     *)
(* lines are chord lines, a script statement, a click-here prompt or a     *)
(* copyright notice, followed by four long lyric lines.                    *)

ResidueLines ==
    { <<"Am", " ", "la">>, <<"var", " ", "la">>, <<"click here">>,
      <<"copyright", " ", "la">> }

LongTail == Repeat(<<"\n", "lyric60">>, 4)

ResiduePages ==
    { <<"<pre>">> \o a \o <<"\n">> \o b \o <<"\n">> \o c \o LongTail
        \o <<"</pre>">> : a \in ResidueLines, b \in ResidueLines,
                          c \in ResidueLines }

ResidueUrls ==
    {Url(h) : h \in {WWW \o P_ug, P_songsterr, P_chordify, P_jtotal,
                     P_chordwiki, P_ufret, P_guitartabs}}

InitResidue ==
    /\ url \in ResidueUrls
    /\ html \in ResiduePages
    /\ op = "none"
    /\ result = NoValue
    /\ config = NoValue
    /\ ran = <<>>
    /\ registry = SITE_CONFIG
    /\ request = NoValue
    /\ upstream = NoValue
    /\ previous = NoValue
    /\ importingUrl = NoValue
    /\ rendered = NoValue
    /\ imports = NoValue
    /\ page = NoValue
    /\ transpose = NoValue
    /\ line = NoValue
    /\ displayLine = NoValue
    /\ dbTabs = NoValue
    /\ toggles = NoValue
    /\ isFavorite = NoValue

NextResidue == ParseTabFromHtml

SpecResidue == InitResidue /\ [][NextResidue]_vars

----------------------------------------------------------------------------
(* Inputs of the script specification: pages of script elements, read as   *)
(* pages of ufret.jp.                                                      *)

MaxScripts == 3

(* "[Am]" and eight times "la": a chord string of exactly 20 characters *)
Chord20 == <<"[Am]", "la", "la", "la", "la", "la", "la", "la", "la">>

ScriptBlocks ==
    { \* a big script: one chord string of 20 characters, one plain string
      <<"<script>", "lyric60", "\"">> \o Chord20
          \o <<"\"", " ", "\"", "la", "\"", "</script>">>,
      \* a big script: 20 characters escaped, 19 unescaped; and a long one
      <<"<script>", "\"", "[Am]", "la", "la", "la", "la", "la", "la", "la",
        "\\n", "\"", "lyric60", "\"", "[Am]", "lyric60", "lyric60", "\"",
        "</script>">>,
      \* a script of 22 characters holding a chord string of 20
      <<"<script>", "\"", "[Am]", "la", "la", "la", "la", "la", "la", "la",
        "Am", "\"", "</script>">>,
      \* a big script: the string of the first script again, and a string
      \* with a run of three newlines that begins with a blank
      <<"<script>", "\"">> \o Chord20
          \o <<"\"", "lyric60", "\"", " ", "[Am]", "\\n", "\\n", "\\n",
               "lyric60", "lyric60", "\"", "</script>">>,
      \* a big script: two chord strings of the same length
      <<"<script>", "\"", "[Am]", "lyric60", "\"", "\"", "lyric60", "[Am]",
        "\"", "</script>">>,
      \* a big script without a chord string
      <<"<script>", "\"", "lyric60", "\"", "\"", "Am", "lyric60", "\"",
        "</script>">>,
      \* a big script: one long chord string that ends with newlines
      <<"<script>", "\"", "[Am]", "lyric60", "\\n", "\\n", "\\n", "lyric60",
        "\\n", "\"", "</script>">>,
      \* a chord string outside every script
      <<"<pre>", "\"", "[Am]", "lyric60", "\"", "</pre>">> }

RECURSIVE ScriptDocsOfLen(_)
ScriptDocsOfLen(n) ==
    IF n = 0 THEN {<<>>}
    ELSE {b \o d : b \in ScriptBlocks, d \in ScriptDocsOfLen(n - 1)}

ScriptHtmls == UNION {ScriptDocsOfLen(n) : n \in 0..MaxScripts}

InitScripts ==
    /\ url = Url(P_ufret)
    /\ html \in ScriptHtmls
    /\ op = "none"
    /\ result = NoValue
    /\ config = NoValue
    /\ ran = <<>>
    /\ registry = SITE_CONFIG
    /\ request = NoValue
    /\ upstream = NoValue
    /\ previous = NoValue
    /\ importingUrl = NoValue
    /\ rendered = NoValue
    /\ imports = NoValue
    /\ page = NoValue
    /\ transpose = NoValue
    /\ line = NoValue
    /\ displayLine = NoValue
    /\ dbTabs = NoValue
    /\ toggles = NoValue
    /\ isFavorite = NoValue

(* A call of extractChordProFromScripts(html) *)
ExtractChordProFromScripts ==
    /\ op = "none"
    /\ result' = [kind |-> "return", value |-> extractChordProFromScripts(html)]
    /\ ran' = <<"extractChordProFromScripts">>
    /\ op' = "extractChordProFromScripts"
    /\ UNCHANGED <<url, html, config, registry, request, upstream,
                 previous, uiVars>>

NextScripts == ExtractChordProFromScripts \/ ParseTabFromHtml

SpecScripts == InitScripts /\ [][NextScripts]_vars

----------------------------------------------------------------------------
(* Properties of the site registry (SpecRegistry)                          *)

Looked == op = "getSiteConfig"

(* The profile the registry table holds for host name h: the entry whose   *)
(* key is h, else the first entry in declaration order whose key h ends    *)
(* with or contains, else null.                                            *)
TableProfile(table, h) ==
    LET exact == {i \in 1..Len(table) : table[i].key = h}
        loose == {i \in 1..Len(table) :
                    \E a, b \in 0..Len(h) :
                        a + Len(table[i].key) + b = Len(h)
                        /\ SubSeq(h, a + 1, a + Len(table[i].key)) = table[i].key}
        first == CHOOSE i \in loose : \A k \in loose : i <= k
        e == CHOOSE i \in exact : TRUE
    IN  IF exact # {} THEN Profile(h, table[e].value)
        ELSE IF loose # {} THEN Profile(table[first].key, table[first].value)
        ELSE Null

(* C7: getSiteConfig returns the profile of the exactly matching key,      *)
(* otherwise the first entry in declaration order whose pattern the host   *)
(* name ends with or contains, null exactly when no entry matches or the   *)
(* URL cannot be parsed, and it leaves the table as it was.                *)
C7_FirstMatchOrNull ==
    Looked =>
        /\ registry = SITE_CONFIG
        /\ config = IF url.valid
                    THEN TableProfile(SITE_CONFIG, StripWww(url.hostname))
                    ELSE Null

(* Only a www. at the very start of the host name is removed *)
StripLeadingWww(h) ==
    IF Len(h) >= 4 /\ SubSeq(h, 1, 4) = WWW THEN SubSeq(h, 5, Len(h)) ELSE h

(* C8: before matching only a leading www. is stripped; a www. elsewhere   *)
(* in the host name is left intact, so the lookup gives what matching the  *)
(* host name with only its leading www. removed gives.                     *)
C8_OnlyLeadingWwwStripped ==
    (Looked /\ url.valid) =>
        config = MatchHost(SITE_CONFIG, StripLeadingWww(url.hostname))

----------------------------------------------------------------------------
(* Properties of parseTabFromHtml (Spec)                                   *)

Parsed == op = "parseTabFromHtml"
Returned == Parsed /\ result.kind = "return"
IsRecordResult == Returned /\ "content" \in DOMAIN result.value

CoreFields == {"title", "artist", "type", "content", "capo", "key",
               "parseable"}

(* C1: parseTabFromHtml is total: for every html and every url it returns  *)
(* a well-formed result record and never throws.                           *)
C1_TotalNeverThrows ==
    Parsed => /\ result.kind = "return"
              /\ CoreFields \subseteq DOMAIN result.value

(* The registry profile of the url has parse mode REDIRECT *)
RedirectProfile(u) ==
    /\ u.valid
    /\ LET h == StripWww(u.hostname)
       IN  \E i \in 1..Len(SITE_CONFIG) :
              /\ Includes(h, SITE_CONFIG[i].key)
              /\ SITE_CONFIG[i].value.parseMode = "redirect"

(* C2: for a url whose registry profile is REDIRECT the result has         *)
(* redirectOnly true, empty content, parseable false, whatever the html,   *)
(* and no extractor ran.                                                   *)
C2_RedirectInvariant ==
    (Parsed /\ RedirectProfile(url)) =>
        /\ result.kind = "return"
        /\ "redirectOnly" \in DOMAIN result.value
        /\ result.value.redirectOnly = TRUE
        /\ result.value.content = <<>>
        /\ result.value.parseable = FALSE
        /\ ran = <<>>

(* A redirect url met an html document that holds an extractable block *)
C2_Witness ==
    /\ Parsed /\ RedirectProfile(url)
    /\ \E i \in 1..Len(html) : html[i] = "lyric60"
    /\ \E i \in 1..Len(html) : html[i] = "</pre>"
    /\ result.value.redirectOnly = TRUE

(* C3: every returned result with empty content has parseable false *)
C3_EmptyContentNotParseable ==
    (IsRecordResult /\ result.value.content = <<>>) =>
        result.value.parseable = FALSE

FixedTypeStrategies == {<<"parseSongsterr">>, <<"parseChordify">>}

(* C4 as claimed: every returned result with empty content has type        *)
(* Unknown, through every site strategy.                                   *)
C4_EmptyContentUnknown ==
    (IsRecordResult /\ result.value.content = <<>>) =>
        result.value.type = "Unknown"

(* C4 amended: a result with empty content has type Unknown on the         *)
(* redirect path and through every strategy but Songsterr and Chordify;    *)
(* those two return the fixed types Tab and Chord with empty content, and  *)
(* U-Fret returns Chord for every content it extracts itself.              *)
C4_EmptyContentUnknownButFixed ==
    IsRecordResult =>
        /\ (result.value.content = <<>> /\ ran \notin FixedTypeStrategies)
              => result.value.type = "Unknown"
        /\ ran = <<"parseSongsterr">>
              => (result.value.type = "Tab" /\ result.value.content = <<>>)
        /\ ran = <<"parseChordify">>
              => (result.value.type = "Chord" /\ result.value.content = <<>>)
        /\ ran = <<"parseUFret">>
              => (result.value.type = "Chord" /\ result.value.content # <<>>)

(* J-Total found no block of 200 characters in an html that holds chords *)
C4_Witness ==
    /\ IsRecordResult
    /\ ran = <<"parseJTotal">>
    /\ \E i \in 1..Len(html) : html[i] = "Am"
    /\ result.value.content = <<>>
    /\ result.value.type = "Unknown"

AllFields == CoreFields \cup {"redirectOnly", "validation"}

OnSomePath == Returned /\ (ran # <<>> \/ RedirectProfile(url))

(* C5 as claimed: on the redirect path and on every extractor path the     *)
(* result carries all nine fields and the validation record.               *)
C5_NoFieldAbsent ==
    OnSomePath => AllFields \subseteq DOMAIN result.value

IsText(t) == \A i \in 1..Len(t) : t[i] \in TextLexemes \cup {"C"}

(* C5 amended: on the redirect path and on every extractor path the        *)
(* result carries title, artist, type, content, capo, key and parseable,   *)
(* each with a typed value; redirectOnly is carried (as true) on the       *)
(* redirect path only, and validation on no path.                          *)
C5_CoreFieldsTyped ==
    OnSomePath =>
        LET v == result.value
        IN  /\ CoreFields \subseteq DOMAIN v
            /\ IsText(v.title) /\ IsText(v.artist) /\ IsText(v.content)
            /\ v.type \in {"Chord", "Fingerstyle", "Tab", "Unknown"}
            /\ v.capo = Null \/ (DOMAIN v.capo = {"num"} /\ v.capo.num \in Nat)
            /\ v.key = Null \/ (DOMAIN v.key = {"str"} /\ IsText(v.key.str))
            /\ v.parseable \in BOOLEAN
            /\ "validation" \notin DOMAIN v
            /\ "redirectOnly" \in DOMAIN v <=> RedirectProfile(url)

(* Chordify answered for an html document that names a capo *)
C5_Witness ==
    /\ OnSomePath
    /\ ran = <<"parseChordify">>
    /\ \E i \in 1..Len(html) : html[i] = "Capo 3"
    /\ result.value.capo = Null

(* The host name, with its first www. removed, holds a parser-table key *)
NamesParserKey(u) ==
    \E i \in 1..Len(parsers) : Includes(StripWww(u.hostname), parsers[i].key)

(* The registry lookup of the url gives null: no registry key occurs in    *)
(* the host name and the host name is no inherited property name.          *)
Unregistered(u) ==
    /\ u.valid
    /\ ~RedirectProfile(u)
    /\ StripWww(u.hostname) \notin InheritedKeys

GenericResult == [kind |-> "return", value |-> parseGeneric(html).res]

(* C6 as claimed: a url whose registry lookup is null is routed to the     *)
(* Generic Extractor: the result is the Generic Extractor's result and no  *)
(* site-specific strategy ran.                                             *)
C6_UnregisteredIsGeneric ==
    (Parsed /\ Unregistered(url)) =>
        (result = GenericResult /\ ran = <<"parseGeneric">>)

(* C6 amended: a url whose registry lookup is null and whose host name     *)
(* holds no key of the parser table is routed to the Generic Extractor; a  *)
(* host name that holds a parser-table key goes to that key's strategy     *)
(* although its registry lookup is null.                                   *)
C6_UnlistedIsGeneric ==
    (Parsed /\ Unregistered(url)) =>
        /\ ~NamesParserKey(url)
              => (result = GenericResult /\ ran = <<"parseGeneric">>)
        /\ NamesParserKey(url) => (result.kind = "return" /\ ran # <<>>)

(* An unlisted host got the text of a <pre> block from the generic path *)
C6_Witness ==
    /\ Parsed /\ Unregistered(url) /\ ~NamesParserKey(url)
    /\ ran = <<"parseGeneric">>
    /\ result.value.parseable = TRUE
    /\ result.value.content # <<>>

PerSiteExtractors ==
    {"parseJTotal", "parseChordWiki", "parseUFret", "parseUltimateGuitar"}

(* The own methods of the per-site extractor that ran produced nothing     *)
(* above its floor.                                                        *)
OwnMethodsFailed(fn, h) ==
    CASE fn = "parseJTotal" -> JTotalContent(h) = <<>>
      [] fn = "parseChordWiki" -> ChordWikiContent(h) = <<>>
      [] fn = "parseUFret" ->
            TextLen(extractChordProFromScripts(h)) < UFretFloor
      [] fn = "parseUltimateGuitar" ->
            LET ms == BlockMatches(h, {"<pre class=\"tK8GG\">"}, "</pre>", 1)
            IN  ms = <<>> \/ stripHtml(Inner(h, ms[1])) = <<>>

(* C9 as claimed: when all methods of a per-site extractor fail, it        *)
(* returns the Generic Extractor's result for the same html.               *)
C9_FallsBackToGeneric ==
    (Returned /\ ran # <<>> /\ Head(ran) \in PerSiteExtractors
       /\ OwnMethodsFailed(Head(ran), html)) =>
        result = GenericResult

(* C9 amended: U-Fret and Ultimate Guitar return the Generic Extractor's   *)
(* result when their own method produces nothing above the floor, and      *)
(* their own content otherwise; ChordWiki takes the first non-empty of     *)
(* <pre> text, wiki <div> text, chord-line scan, in this order; J-Total    *)
(* and ChordWiki never run the Generic Extractor: when all their methods   *)
(* fail they return their own record with empty content.                   *)
C9_FallbackOnlyUFretAndUG ==
    (Returned /\ ran # <<>> /\ Head(ran) \in PerSiteExtractors) =>
        LET fn == Head(ran)
            failed == OwnMethodsFailed(fn, html)
            v == result.value
        IN  /\ fn \in {"parseUFret", "parseUltimateGuitar"} =>
                 IF failed
                 THEN result = GenericResult /\ ran = <<fn, "parseGeneric">>
                 ELSE ran = <<fn>> /\ v.content # <<>>
            /\ fn = "parseUFret" /\ ~failed =>
                 v.content = Trim(extractChordProFromScripts(html))
            /\ fn \in {"parseJTotal", "parseChordWiki"} =>
                 /\ ran = <<fn>>
                 /\ "source" \in DOMAIN v
                 /\ failed => v.content = <<>>
            /\ fn = "parseChordWiki" =>
                 LET pre == BlocksText(html, PreOpens, "</pre>", DropPreTags)
                 IN  v.content = Trim(IF pre # <<>> THEN pre
                                      ELSE IF WikiContent(html) # <<>>
                                           THEN WikiContent(html)
                                      ELSE ChordLinesContent(html))

(* U-Fret found a chord string shorter than its floor and handed the html  *)
(* to the Generic Extractor, which found a <pre> block.                    *)
C9_Witness ==
    /\ Returned
    /\ ran = <<"parseUFret", "parseGeneric">>
    /\ extractChordProFromScripts(html) # <<>>
    /\ result.value.content # <<>>

(* C10: the Generic Extractor's content is the stripped text of all <pre>  *)
(* blocks joined by a blank line; the <code> blocks are used only if no    *)
(* <pre> block matched in the html.                                        *)
C10_CodeOnlyWithoutPre ==
    (Returned /\ ran = <<"parseGeneric">>) =>
        LET pres == BlockMatches(html, PreOpens, "</pre>", 1)
        IN  result.value.content =
                Trim(IF pres # <<>>
                     THEN BlocksText(html, PreOpens, "</pre>", DropPreTags)
                     ELSE BlocksText(html, {"<code>"}, "</code>", DropCodeTags))

----------------------------------------------------------------------------
(* Inputs of the text specification: the contents given to detectTabType   *)
(* and validateContent.                                                    *)

MaxTabLines == 11
MaxChords == 4
MaxLines == 21

(* n tab lines, the last one with a hammer-on when marked *)
TabLines(n, marked) ==
    Concat([i \in 1..n |->
              IF marked /\ i = n THEN <<"e|-0h2-|", "\n">>
              ELSE <<"e|-0-|", "\n">>])

ChordNames == <<"Am", "G", "Am", "[Am]", "G">>

(* The first n chord names, each followed by a blank *)
Chords(n) == Concat([i \in 1..n |-> <<ChordNames[((i - 1) % 5) + 1], " ">>])

(* n lines of lyrics; the first wide lines hold two words, the others one *)
Lyrics(n, wide) ==
    Concat([i \in 1..n |->
              IF i <= wide THEN <<"la", " ", "la", "\n">> ELSE <<"la", "\n">>])

TabTexts ==
    {TabLines(n, marked) \o slash \o Chords(c) :
        n \in 0..MaxTabLines, marked \in BOOLEAN,
        slash \in {<<>>, <<"/", " ">>}, c \in 0..MaxChords}

(* Chord names, then lyrics, then a last word: the text does not end with  *)
(* whitespace unless a blank line is put behind it                         *)
LyricTexts ==
    {lead \o Chords(c) \o Lyrics(n, wide) \o <<"la">> \o trail :
        lead \in {<<>>, <<" ">>}, c \in 0..MaxChords,
        n \in (MaxLines - 4)..(MaxLines - 1),
        wide \in {0} \cup (MaxLines - 6)..(MaxLines - 2),
        trail \in {<<>>, <<"\n", " ", "\n">>}}

Texts == TabTexts \cup LyricTexts

InitText ==
    /\ url = InvalidUrl
    /\ html \in Texts
    /\ op = "none"
    /\ result = NoValue
    /\ config = NoValue
    /\ ran = <<>>
    /\ registry = SITE_CONFIG
    /\ request = NoValue
    /\ upstream = NoValue
    /\ previous = NoValue
    /\ importingUrl = NoValue
    /\ rendered = NoValue
    /\ imports = NoValue
    /\ page = NoValue
    /\ transpose = NoValue
    /\ line = NoValue
    /\ displayLine = NoValue
    /\ dbTabs = NoValue
    /\ toggles = NoValue
    /\ isFavorite = NoValue

(* A call of detectTabType(content), the content held in html *)
DetectTabType ==
    /\ op = "none"
    /\ result' = [kind |-> "return", value |-> detectTabType(html)]
    /\ ran' = <<"detectTabType">>
    /\ op' = "detectTabType"
    /\ UNCHANGED <<url, html, config, registry, request, upstream,
                 previous, uiVars>>

(* A call of validateContent(content), the content held in html *)
ValidateContent ==
    /\ op = "none"
    /\ result' = [kind |-> "return", value |-> validateContent(html)]
    /\ ran' = <<"validateContent">>
    /\ op' = "validateContent"
    /\ UNCHANGED <<url, html, config, registry, request, upstream,
                 previous, uiVars>>

NextText == DetectTabType \/ ValidateContent

SpecText == InitText /\ [][NextText]_vars

----------------------------------------------------------------------------
(* Inputs of the growth specification: a sheet of one or two lines is      *)
(* validated, chord-bearing lines are appended to it, and the longer       *)
(* sheet is validated again.                                               *)

MaxSheetLines == 4

SheetLines ==
    { <<"Am">>, <<"Am", " ", "la">>, <<"[Am]", "[Am]">>, <<"la", " ", "la">>,
      <<"la", " ", "la", " ", "la", " ", "Am">> }

(* Lines that hold at least one chord token *)
ChordBearingLines ==
    { <<"Am">>, <<"Am", " ", "la">>, <<"[Am]", "[Am]">>,
      <<"[Am]", "la", " ", "la", " ", "la">> }

Sheets ==
    {a \o trail : a \in SheetLines, trail \in {<<>>, <<" ">>}}
      \cup {a \o <<"\n">> \o b \o trail :
               a \in SheetLines, b \in SheetLines, trail \in {<<>>, <<" ">>}}

InitGrowth ==
    /\ url = InvalidUrl
    /\ html \in Sheets
    /\ op = "none"
    /\ result = NoValue
    /\ config = NoValue
    /\ ran = <<>>
    /\ registry = SITE_CONFIG
    /\ request = NoValue
    /\ upstream = NoValue
    /\ previous = NoValue
    /\ importingUrl = NoValue
    /\ rendered = NoValue
    /\ imports = NoValue
    /\ page = NoValue
    /\ transpose = NoValue
    /\ line = NoValue
    /\ displayLine = NoValue
    /\ dbTabs = NoValue
    /\ toggles = NoValue
    /\ isFavorite = NoValue

(* The caller keeps the validated sheet and its record, and puts a         *)
(* chord-bearing line behind the sheet.                                    *)
AppendLine ==
    /\ op = "validateContent"
    /\ LineCount(html) < MaxSheetLines
    /\ \E l \in ChordBearingLines : html' = html \o <<"\n">> \o l
    /\ previous' = [content |-> html, record |-> result.value]
    /\ op' = "none"
    /\ UNCHANGED <<url, result, config, ran, registry, request, upstream,
                 uiVars>>

NextGrowth == ValidateContent \/ AppendLine

SpecGrowth == InitGrowth /\ [][NextGrowth]_vars

----------------------------------------------------------------------------
(* Inputs of the parseability specification: each key of either table,     *)
(* plain, behind www. and as a subdomain                                   *)

Registries == {SITE_CONFIG, SITE_CONFIG_search}

KeysOf(table) == {table[i].key : i \in 1..Len(table)}

ParseableHosts ==
    UNION {{k, WWW \o k, S_x \o Dot \o k} :
             k \in KeysOf(SITE_CONFIG) \cup KeysOf(SITE_CONFIG_search)}
    \cup {S_example, S_constructor}

InitParseable ==
    /\ url \in {InvalidUrl} \cup {Url(h) : h \in ParseableHosts}
    /\ html = <<>>
    /\ op = "none"
    /\ result = NoValue
    /\ config = NoValue
    /\ ran = <<>>
    /\ registry \in Registries
    /\ request = NoValue
    /\ upstream = NoValue
    /\ previous = NoValue
    /\ importingUrl = NoValue
    /\ rendered = NoValue
    /\ imports = NoValue
    /\ page = NoValue
    /\ transpose = NoValue
    /\ line = NoValue
    /\ displayLine = NoValue
    /\ dbTabs = NoValue
    /\ toggles = NoValue
    /\ isFavorite = NoValue

(* A call of isParseable(url) *)
IsParseable ==
    /\ op = "none"
    /\ result' = [kind |-> "return", value |-> isParseable(registry, url)]
    /\ op' = "isParseable"
    /\ UNCHANGED <<url, html, config, ran, registry, request, upstream,
                 previous, uiVars>>

NextParseable == IsParseable

SpecParseable == InitParseable /\ [][NextParseable]_vars

----------------------------------------------------------------------------
(* fetch.js: the handler of the fetch endpoint.  A request runs in three   *)
(* steps, one per await: up to the call of fetch, up to the call of        *)
(* arrayBuffer, and the rest.  The request headers do not reach the        *)
(* response and are left out; the lexemes are ASCII, which the three       *)
(* decoders of lines 76-91 read alike.                                     *)

Methods == {"OPTIONS", "GET", "POST"}

(* req.body: undefined when the request has no body the platform can     *)
(* parse, an object without url, an object with one                       *)
Bodies == {"undefined", "no url", "url"}

(* Statuses the upstream server answers with *)
Statuses == {200, 206, 404, 503}

(* What the network does with the one fetch: the promise rejects, or a     *)
(* response arrives whose body can or cannot be read to its end            *)
Upstreams ==
    {[kind |-> "throw"]}
      \cup [kind : {"response"}, status : Statuses, bodyReads : BOOLEAN]

(* Response.ok *)
ok(status) == status >= 200 /\ status <= 299

MinContentLen == 50

Respond(status, body) == [status |-> status, body |-> body]

(* Only a rejected fetch counts as a failure *)
FetchFailed_ThrowOnly(u) == u.kind = "throw"

(* Lines 57-66 and 125: the fetch rejects, or !response.ok *)
FetchFailed(u) == u.kind = "throw" \/ ~ok(u.status)

(* Lines 125-130 and 62-66 *)
FailureResponse(u) ==
    IF u.kind = "throw" THEN Respond(500, [error |-> "Failed to fetch page"])
    ELSE Respond(u.status, [error |-> "Failed to fetch"])

(* The error is added and parseable is left as the parser set it *)
NotExtracted_KeepParseable(v) ==
    [f \in DOMAIN v \cup {"error"} |->
        IF f = "error" THEN "Could not extract tab content from this page"
        ELSE v[f]]

(* { ...result, parseable: false, error: ... }, lines 116-120 *)
NotExtracted(v) ==
    [f \in DOMAIN v \cup {"parseable", "error"} |->
        IF f = "parseable" THEN FALSE
        ELSE IF f = "error" THEN "Could not extract tab content from this page"
        ELSE v[f]]

(* Lines 113-130: the response for what parseTabFromHtml did *)
ParseResponse(out) ==
    IF out.kind = "throw"
    THEN Respond(500, [error |-> "Failed to fetch page"])
    ELSE IF "content" \notin DOMAIN out.value
            \/ TextLen(out.value.content) < MinContentLen
    THEN Respond(200, NotExtracted(out.value))
    ELSE Respond(200, out.value)

FetchUrls ==
    {InvalidUrl} \cup
    {Url(h) : h \in {P_jtotal, P_ufret, K_blogfc2, S_example, S_constructor,
                     S_proto}}

InitFetch ==
    /\ url \in FetchUrls
    /\ html \in DocsOfLen(0) \cup DocsOfLen(1)
    /\ op = "none"
    /\ result = NoValue
    /\ config = NoValue
    /\ ran = <<>>
    /\ registry = SITE_CONFIG
    /\ request \in [method : Methods, body : Bodies]
    /\ upstream = NoValue
    /\ previous = NoValue
    /\ importingUrl = NoValue
    /\ rendered = NoValue
    /\ imports = NoValue
    /\ page = NoValue
    /\ transpose = NoValue
    /\ line = NoValue
    /\ displayLine = NoValue
    /\ dbTabs = NoValue
    /\ toggles = NoValue
    /\ isFavorite = NoValue

(* Lines 8-60: the checks of the request, then the call of fetch *)
Handler ==
    /\ op = "none"
    /\ IF request.method = "OPTIONS"
       THEN result' = Respond(200, NoValue) /\ op' = "responded" /\ ran' = ran
       ELSE IF request.method # "POST"
       THEN /\ result' = Respond(405, [error |-> "Method not allowed"])
            /\ op' = "responded" /\ ran' = ran
       ELSE IF request.body = "undefined"    \* line 22 throws a TypeError
       THEN result' = result /\ op' = "threw" /\ ran' = ran
       ELSE IF request.body = "no url"
       THEN /\ result' = Respond(400, [error |-> "Missing URL"])
            /\ op' = "responded" /\ ran' = ran
       ELSE IF ~url.valid
       THEN /\ result' = Respond(400, [error |-> "Invalid URL format"])
            /\ op' = "responded" /\ ran' = ran
       ELSE result' = result /\ op' = "fetch" /\ ran' = <<"fetch">>
    /\ UNCHANGED <<url, html, config, registry, request, upstream,
                 previous, uiVars>>

(* Lines 57-66: the fetch settles *)
FetchSettled ==
    /\ op = "fetch"
    /\ \E u \in Upstreams :
          /\ upstream' = u
          /\ IF FetchFailed(u)
             THEN result' = FailureResponse(u) /\ op' = "responded"
             ELSE result' = result /\ op' = "arrayBuffer"
    /\ UNCHANGED <<url, html, config, ran, registry, request, previous,
                 uiVars>>

(* Lines 69-131: the body is read, decoded and parsed *)
BodyRead ==
    /\ op = "arrayBuffer"
    /\ IF ~upstream.bodyReads
       THEN /\ result' = Respond(500, [error |-> "Failed to fetch page"])
            /\ ran' = ran
       ELSE \E out \in {parseTabFromHtml(registry, html, url)} :
               /\ result' = ParseResponse(out)
               /\ ran' = ran \o <<"parseTabFromHtml">> \o out.ran
    /\ op' = "responded"
    /\ UNCHANGED <<url, html, config, registry, request, upstream,
                 previous, uiVars>>

NextFetch == Handler \/ FetchSettled \/ BodyRead

SpecFetch == InitFetch /\ [][NextFetch]_vars

----------------------------------------------------------------------------
(* Inputs of the title specification: pages with a title made of a song,   *)
(* an artist and a tail, with or without a block of text                   *)

Sep == <<" ", "-", " ">>

TitleTails ==
    {<<>>, Sep \o <<"SiteBrand", " ", "Tab">>, Sep \o <<"Songsterr", " ", "Tab">>,
     Sep \o <<"Songsterr">>, Sep \o <<"Tab">>}

Titles ==
    {<<song>> \o link \o <<artist>> \o tail :
        song \in {"Song Name", "la"}, artist \in {"Artist Name", "la"},
        link \in {Sep, <<" ", "by", " ">>}, tail \in TitleTails}
      \cup {<<song>> \o tail : song \in {"Song Name", "la"}, tail \in TitleTails}

TitlePages ==
    {<<"<title>">> \o t \o <<"</title>">> \o body :
        t \in Titles,
        body \in {<<>>, <<"<pre>", "Am", " ", "lyric60", "</pre>">>}}

TitleUrls ==
    {Url(h) : h \in {S_example, P_songsterr, P_chordify, P_gakufu, P_jtotal}}

InitTitle ==
    /\ url \in TitleUrls
    /\ html \in TitlePages
    /\ op = "none"
    /\ result = NoValue
    /\ config = NoValue
    /\ ran = <<>>
    /\ registry = SITE_CONFIG
    /\ request = NoValue
    /\ upstream = NoValue
    /\ previous = NoValue
    /\ importingUrl = NoValue
    /\ rendered = NoValue
    /\ imports = NoValue
    /\ page = NoValue
    /\ transpose = NoValue
    /\ line = NoValue
    /\ displayLine = NoValue
    /\ dbTabs = NoValue
    /\ toggles = NoValue
    /\ isFavorite = NoValue

(* A call of extractTitleArtist(rawTitle) with the title of the page *)
ExtractTitleArtist ==
    /\ op = "none"
    /\ result' = [kind |-> "return",
                  value |-> extractTitleArtist(TitleMatch(html).text)]
    /\ ran' = <<"extractTitleArtist">>
    /\ op' = "extractTitleArtist"
    /\ UNCHANGED <<url, html, config, registry, request, upstream,
                 previous, uiVars>>

NextTitle == ExtractTitleArtist \/ ParseTabFromHtml

SpecTitle == InitTitle /\ [][NextTitle]_vars

----------------------------------------------------------------------------
(* Inputs of the block specification: pages made of one <pre> block of     *)
(* twenty-five lines, eight of them with a chord name, read as pages of    *)
(* the sites with parse mode SERVER                                        *)

(* The line with a chord name: the name alone, or the name and a word *)
ChordLine(name, word) == IF word = "" THEN <<name>> ELSE <<name, " ", word>>

(* A line of lyrics of n words *)
LyricLine(word, n) ==
    Concat([i \in 1..n |-> IF i = 1 THEN <<word>> ELSE <<" ", word>>])

(* Line i of the block: the chord lines come first, or at every third      *)
(* line; the first tabs of the other lines are tab lines                   *)
IsChordLineNo(i, spread) ==
    IF spread THEN i % 3 = 1 /\ i <= 22
    ELSE i <= 8

OtherLinesBefore(i, spread) ==
    Cardinality({k \in 1..(i - 1) : ~IsChordLineNo(k, spread)})

BlockLine(i, name, after, word, n, tabs, spread) ==
    IF IsChordLineNo(i, spread) THEN ChordLine(name, after)
    ELSE IF OtherLinesBefore(i, spread) < tabs THEN <<"e|-0-|">>
    ELSE LyricLine(word, n)

BlockText(name, after, word, n, tabs, spread) ==
    Join([i \in 1..25 |->
            BlockLine(i, name, after, word, n, tabs, spread)], <<"\n">>)

BlockPages ==
    {<<"<pre>">> \o BlockText(name, after, word, n, tabs, spread)
                \o <<"</pre>">> :
        name \in {"Am", "[Am]"}, after \in {"", "la"},
        word \in {"la", "lyric60"}, n \in {1, 8, 9}, tabs \in {0, 3, 4},
        spread \in BOOLEAN}

BlockUrls ==
    {Url(h) : h \in {P_jtotal, WWW \o P_jtotal, P_guitartabs, P_azchords,
                     P_chordie}}

InitBlock ==
    /\ url \in BlockUrls
    /\ html \in BlockPages
    /\ op = "none"
    /\ result = NoValue
    /\ config = NoValue
    /\ ran = <<>>
    /\ registry \in Registries
    /\ request = NoValue
    /\ upstream = NoValue
    /\ previous = NoValue
    /\ importingUrl = NoValue
    /\ rendered = NoValue
    /\ imports = NoValue
    /\ page = NoValue
    /\ transpose = NoValue
    /\ line = NoValue
    /\ displayLine = NoValue
    /\ dbTabs = NoValue
    /\ toggles = NoValue
    /\ isFavorite = NoValue

NextBlock == ParseTabFromHtml

SpecBlock == InitBlock /\ [][NextBlock]_vars

----------------------------------------------------------------------------
(* Script-embedded strings *)

Extracted == op = "extractChordProFromScripts"

(* The bodies of the script elements of h that are longer than floor *)
ScriptBodies(h, floor) ==
    {b \in {Inner(h, BlockMatches(h, {"<script>"}, "</script>", 1)[i]) :
              i \in 1..Len(BlockMatches(h, {"<script>"}, "</script>", 1))} :
        TextLen(b) > floor}

(* The unescaped string literals of those bodies that have at least 20     *)
(* characters and hold a bracketed chord                                   *)
KeptStrings(h, floor) ==
    {t \in UNION {{MapLex(StringLiterals(b, 1)[i], UnescapeNewline) :
                     i \in 1..Len(StringLiterals(b, 1))} :
                  b \in ScriptBodies(h, floor)} :
        TextLen(t) >= MinStringLen /\ \E i \in 1..Len(t) : t[i] = "[Am]"}

Min(a, b) == IF a < b THEN a ELSE b

(* The ways to list the (at most 200) longest strings of K, each once, in  *)
(* ascending length                                                        *)
AscendingLists(K) ==
    {p \in [1..Min(Cardinality(K), MaxChunks) -> K] :
        /\ \A i, j \in DOMAIN p : i < j =>
              p[i] # p[j] /\ TextLen(p[i]) <= TextLen(p[j])
        /\ \A t \in K : (\A i \in DOMAIN p : p[i] # t) =>
              \A i \in DOMAIN p : TextLen(t) <= TextLen(p[i])}

IsJoinOf(text, K) ==
    \E p \in AscendingLists(K) :
        text = Trim(CollapseNewlines(Join(p, <<"\n">>)))

ThreeScriptsOneString ==
    /\ Len(BlockMatches(html, {"<script>"}, "</script>", 1)) = 3
    /\ Cardinality(KeptStrings(html, -1)) = 1

TheString == CHOOSE t \in KeptStrings(html, -1) : TRUE

FewLinesInvalid(content) ==
    validateContent(content).lines < MinValidLines
        => ~validateContent(content).valid

(* C12 as stated: on such a page of ufret.jp the content is that string,   *)
(* and a content of fewer than 20 lines does not validate.                 *)
C12_ContentIsTheString ==
    (Returned /\ ThreeScriptsOneString) =>
        /\ result.value.content = TheString
        /\ FewLinesInvalid(result.value.content)

(* C12 amended: the content is that string, newline runs collapsed and     *)
(* trimmed, when the string stands in a script body of more than 50        *)
(* characters and is at least 100 characters long; on every other such     *)
(* page the result is the one of parseGeneric.                             *)
C12_ContentIsTheLongString ==
    (Returned /\ ThreeScriptsOneString) =>
        /\ IF /\ KeptStrings(html, MinScriptLen) = {TheString}
              /\ TextLen(Trim(CollapseNewlines(TheString))) >= UFretFloor
           THEN /\ result.value.content = Trim(CollapseNewlines(TheString))
                /\ ran = <<"parseUFret">>
           ELSE /\ result.value = parseGeneric(html).res
                /\ ran = <<"parseUFret", "parseGeneric">>
        /\ FewLinesInvalid(result.value.content)

C12_Witness ==
    /\ Returned
    /\ ThreeScriptsOneString
    /\ ran = <<"parseUFret">>
    /\ result.value.content # TheString
    /\ result.value.content = Trim(CollapseNewlines(TheString))


----------------------------------------------------------------------------
(* Classifier *)

Classified == op = "detectTabType"

TabLineLexemes == {"e|-0-|", "e|-0h2-|"}

TabLineMatches(s) == Cardinality({i \in 1..Len(s) : s[i] \in TabLineLexemes})

(* The text holds one of the characters h, p, / and backslash *)
HasTechniqueMarker(s) ==
    \E i \in 1..Len(s) : s[i] \in {"e|-0h2-|", "/", "\\n", "Capo 3"}

(* C13: four or more tab lines make the type Tab, or Fingerstyle exactly   *)
(* when there are ten or more and a technique marker; otherwise three or   *)
(* more chord matches make it Chord; otherwise, and for the empty text, it *)
(* is Unknown; detectTabType always returns.                               *)
C13_PriorityOrder ==
    Classified =>
        /\ result.kind = "return"
        /\ result.value =
             IF html = <<>> THEN "Unknown"
             ELSE IF TabLineMatches(html) >= 4
                  THEN IF TabLineMatches(html) >= 10 /\ HasTechniqueMarker(html)
                       THEN "Fingerstyle" ELSE "Tab"
             ELSE IF CountChords(html) >= 3 THEN "Chord"
             ELSE "Unknown"

C13_Witness ==
    /\ Classified
    /\ TabLineMatches(html) >= 10
    /\ CountChords(html) >= 3
    /\ HasTechniqueMarker(html)
    /\ result.value = "Fingerstyle"

(* The chord matches of s and the different chord names among them *)
ChordMatchCount(s) == Cardinality({i \in 1..Len(s) : ChordAt(s, i)})

DistinctChordCount(s) ==
    Cardinality({s[i] : i \in {k \in 1..Len(s) : ChordAt(s, k)}})

(* C14 as stated: without tab lines, three distinct chord matches make the *)
(* type Chord and two distinct chord matches make it Unknown.              *)
C14_DistinctBoundary ==
    (Classified /\ TabLineMatches(html) = 0) =>
        /\ DistinctChordCount(html) = 3 => result.value = "Chord"
        /\ DistinctChordCount(html) = 2 => result.value = "Unknown"

(* C14 amended: the matches are counted as occurrences, equal names        *)
(* included: three make the type Chord, two make it Unknown.               *)
C14_OccurrenceBoundary ==
    (Classified /\ TabLineMatches(html) = 0) =>
        /\ ChordMatchCount(html) = 3 => result.value = "Chord"
        /\ ChordMatchCount(html) = 2 => result.value = "Unknown"

C14_Witness ==
    /\ Classified
    /\ TabLineMatches(html) = 0
    /\ ChordMatchCount(html) = 3
    /\ DistinctChordCount(html) = 2
    /\ result.value = "Chord"


----------------------------------------------------------------------------
(* Parseability *)

Asked == op = "isParseable"

(* The parse mode of the profile the registry gives for the url, "none"    *)
(* when the profile has none                                               *)
ModeOf(cfg) == IF "parseMode" \in DOMAIN cfg THEN cfg.parseMode ELSE "none"

(* C16 as stated: isParseable is true for the urls whose profile has the   *)
(* mode SERVER or CLIENT and false for all others.                         *)
C16_ServerOrClient ==
    Asked => (result.value <=>
                ModeOf(getSiteConfig(registry, url)) \in {"server", "client"})

(* C16 amended: isParseable is true exactly for the urls whose profile has *)
(* the mode SERVER.                                                        *)
C16_ServerOnly ==
    Asked => (result.value <=>
                ModeOf(getSiteConfig(registry, url)) = "server")

C16_Witness ==
    /\ Asked
    /\ url.valid /\ url.hostname = WWW \o P_guitartabs
    /\ registry = SITE_CONFIG_search
    /\ result.value = TRUE


----------------------------------------------------------------------------
(* Validation *)

Validated == op = "validateContent"

(* The lines of a text that hold something other than whitespace *)
NonBlankLines(s) ==
    Cardinality({i \in 1..Len(s) :
                   /\ ~IsSpace(s[i])
                   /\ \A k \in 1..(i - 1) :
                        (\A j \in k..(i - 1) : s[j] # "\n") => IsSpace(s[k])})

(* The whitespace-delimited words of a text *)
Words(s) ==
    Cardinality({i \in 1..Len(s) :
                   ~IsSpace(s[i]) /\ (i = 1 \/ IsSpace(s[i - 1]))})
      + Cardinality({i \in 1..Len(s) :
                       s[i] \in {"Capo 3", "Song Name", "Artist Name",
                                 "click here"}})

(* The empty strings split(/\s+/) yields before leading and after trailing *)
(* whitespace                                                              *)
EdgeTokens(s) ==
    (IF s # <<>> /\ IsSpace(s[1]) THEN 1 ELSE 0)
      + (IF s # <<>> /\ IsSpace(s[Len(s)]) THEN 1 ELSE 0)

(* r is the number of hundredths nearest to chords / tokens, halves up *)
IsRounded(r, chords, tokens) ==
    /\ 2 * r * tokens - tokens <= 200 * chords
    /\ 200 * chords < 2 * r * tokens + tokens

(* C15 as stated: lines is the number of non-blank lines, chordRatio is    *)
(* the chord matches divided by the whitespace-delimited tokens, and valid *)
(* is true exactly when the returned lines >= 20 and the returned          *)
(* chordRatio > 0.05.                                                      *)
C15_ReturnedRatio ==
    Validated =>
        /\ result.value.lines = NonBlankLines(html)
        /\ result.value.chordRatio * Words(html) = 100 * ChordMatchCount(html)
        /\ result.value.valid <=>
              (result.value.lines >= 20 /\ result.value.chordRatio > 5)

(* C15 amended: lines is the number of non-blank lines; the returned       *)
(* chordRatio is 0 for empty content and otherwise the quotient of the     *)
(* chord matches by the pieces of split(/\s+/), rounded to hundredths;     *)
(* valid is true exactly when lines >= 20 and the quotient itself is       *)
(* above 0.05.                                                             *)
C15_QuotientBeforeRounding ==
    Validated =>
        /\ result.value.lines = NonBlankLines(html)
        /\ IF html = <<>> THEN result.value.chordRatio = 0
           ELSE IsRounded(result.value.chordRatio, ChordMatchCount(html),
                          Words(html) + EdgeTokens(html))
        /\ result.value.valid <=>
              /\ NonBlankLines(html) >= 20
              /\ 100 * ChordMatchCount(html)
                   > 5 * (Words(html) + EdgeTokens(html))

(* A valid text whose returned chordRatio is 0.05 *)
C15_Witness ==
    /\ Validated
    /\ result.value.valid
    /\ result.value.lines >= 20
    /\ result.value.chordRatio = 5


----------------------------------------------------------------------------
(* The fetch endpoint *)

Calls(name) == Cardinality({i \in 1..Len(ran) : ran[i] = name})

(* The request has ended with an error response of the given status and    *)
(* without a call of the parser                                            *)
EndedWithError(status) ==
    /\ op = "responded"
    /\ result.status = status
    /\ "error" \in DOMAIN result.body
    /\ Calls("parseTabFromHtml") = 0

(* C17 as stated: a request makes at most one upstream fetch; when the     *)
(* fetch throws or returns a status other than 200, the request ends with  *)
(* an error response (the upstream status, or 500 on exception) and the    *)
(* parser is never run.                                                    *)
C17_Non200IsTerminal ==
    /\ Calls("fetch") <= 1
    /\ upstream # NoValue /\ upstream.kind = "throw" => EndedWithError(500)
    /\ upstream # NoValue /\ upstream.kind = "response"
         /\ upstream.status # 200 => EndedWithError(upstream.status)

(* C17 amended: a request makes at most one upstream fetch; when the fetch *)
(* throws or returns a status outside 200..299, the request ends with an   *)
(* error response (the upstream status, or 500 on exception) and the       *)
(* parser is never run.                                                    *)
C17_Non2xxIsTerminal ==
    /\ Calls("fetch") <= 1
    /\ upstream # NoValue /\ upstream.kind = "throw" => EndedWithError(500)
    /\ upstream # NoValue /\ upstream.kind = "response"
         /\ upstream.status \notin 200..299 => EndedWithError(upstream.status)

(* A request whose fetch was answered with 404 *)
C17_Witness ==
    /\ request = [method |-> "POST", body |-> "url"]
    /\ upstream # NoValue /\ upstream.kind = "response"
    /\ upstream.status = 404
    /\ op = "responded"
    /\ result.status = 404
    /\ ran = <<"fetch">>


----------------------------------------------------------------------------
(* Titles *)

(* The title of the page is song, artist and a site name with the word Tab *)
HasThreePartTitle ==
    TitleMatch(html).text \in
        {<<"Song Name">> \o Sep \o <<"Artist Name">> \o Sep
            \o <<brand, " ", "Tab">> : brand \in {"SiteBrand", "Songsterr"}}

SongAndArtist(v) == v.title = <<"Song Name">> /\ v.artist = <<"Artist Name">>

(* C19: a title of the form Song Name - Artist Name - SiteBrand Tab yields *)
(* the title Song Name and the artist Artist Name, in the title splitting  *)
(* of parseGeneric and parseSongsterr and in extractTitleArtist.           *)
C19_SongThenArtist ==
    HasThreePartTitle =>
      /\ op = "extractTitleArtist" => SongAndArtist(result.value)
      /\ Returned /\ ran # <<>> /\ ran[1] \in {"parseGeneric", "parseSongsterr"}
           => SongAndArtist(result.value)

----------------------------------------------------------------------------
(* A single block of twenty-five lines *)

(* The text between <pre> and </pre> of a page that is one <pre> block *)
TheBlock == SubSeq(html, 2, Len(html) - 1)

(* The url is that of a site whose profile has the parse mode SERVER *)
OnServerSite == ModeOf(getSiteConfig(registry, url)) = "server"

(* C20 as stated: for a site with parse mode SERVER and a page that is one *)
(* <pre> block of 25 lines, 8 of them with a chord name, the content is    *)
(* the text of the block, validation has lines 25 and valid true, and the  *)
(* type is Chord.                                                          *)
C20_BlockIsValidChord ==
    Returned /\ OnServerSite =>
        /\ result.value.content = TheBlock
        /\ validateContent(result.value.content).lines = 25
        /\ validateContent(result.value.content).valid
        /\ result.value.type = "Chord"

(* The block is long enough for the extractor of j-total.net and holds     *)
(* fewer than four tab lines                                               *)
LongEnoughAndNoTab ==
    /\ ran[1] = "parseJTotal" => TextLen(TheBlock) >= 200
    /\ TabLineMatches(TheBlock) < 4

(* C20 amended: when moreover the block has at least 200 characters on     *)
(* j-total.net and fewer than four tab lines, the content is the text of   *)
(* the block, validation has lines 25 and the type is Chord; valid is true *)
(* exactly when the chord matches are more than 5% of the pieces of        *)
(* split(/\s+/).                                                           *)
C20_LongBlockIsChord ==
    Returned /\ OnServerSite /\ LongEnoughAndNoTab =>
        /\ result.value.content = TheBlock
        /\ validateContent(result.value.content).lines = 25
        /\ validateContent(result.value.content).valid
             <=> 100 * ChordMatchCount(TheBlock)
                    > 5 * (Words(TheBlock) + EdgeTokens(TheBlock))
        /\ result.value.type = "Chord"

(* A long block on j-total.net that is returned and valid *)
C20_Witness ==
    /\ Returned /\ OnServerSite
    /\ ran = <<"parseJTotal">>
    /\ TextLen(TheBlock) >= 200
    /\ result.value.content = TheBlock
    /\ result.value.type = "Chord"
    /\ validateContent(result.value.content).valid
    /\ validateContent(result.value.content).chordRatio = 5

----------------------------------------------------------------------------
(* chordParser (unnamed/part_004): transposition.  A line of a tab is a    *)
(* sequence of atoms: note letters, the accidentals # and b, chord         *)
(* modifiers, a digit, punctuation, blanks and lower-case lyric words.     *)
(* "undefined" is the text JavaScript puts for an undefined value.         *)

NoteLetters == {"A", "B", "C", "D", "E", "F", "G"}
Accidentals == {"#", "b"}
ModifierAtoms == {"m", "maj", "sus"}
DigitAtoms == {"7"}
LyricAtoms == {"la", "day"}

(* The atom is made of word characters (\w) *)
IsWordAtom(a) ==
    a \in NoteLetters \cup {"b", "undefined"} \cup ModifierAtoms
            \cup DigitAtoms \cup LyricAtoms

AtomAt(s, i) == IF i \in 1..Len(s) THEN s[i] ELSE ""

(* \b between the atoms at k and k + 1 *)
WordBoundary(s, k) == IsWordAtom(AtomAt(s, k)) # IsWordAtom(AtomAt(s, k + 1))

(* lines 104-111 *)
NOTES ==
    << <<"C">>, <<"C", "#">>, <<"D">>, <<"D", "#">>, <<"E">>, <<"F">>,
       <<"F", "#">>, <<"G">>, <<"G", "#">>, <<"A">>, <<"A", "#">>, <<"B">> >>

NOTE_ALIASES ==
    { <<<<"D", "b">>, <<"C", "#">>>>, <<<<"E", "b">>, <<"D", "#">>>>,
      <<<<"F", "b">>, <<"E">>>>, <<<<"G", "b">>, <<"F", "#">>>>,
      <<<<"A", "b">>, <<"G", "#">>>>, <<<<"B", "b">>, <<"A", "#">>>>,
      <<<<"C", "b">>, <<"B">>>>, <<<<"E", "#">>, <<"F">>>>,
      <<<<"B", "#">>, <<"C">>>> }

(* normalizeNote, lines 125-127 *)
normalizeNote(note) ==
    IF \E p \in NOTE_ALIASES : p[1] = note
    THEN (CHOOSE p \in NOTE_ALIASES : p[1] = note)[2]
    ELSE note

(* NOTES.indexOf(n), zero-based; -1 when absent *)
IndexOfNote(n) ==
    IF \E k \in 1..12 : NOTES[k] = n
    THEN (CHOOSE k \in 1..12 : NOTES[k] = n) - 1
    ELSE -1

(* The remainder operator of JavaScript: the sign of the dividend *)
JsRem(a, b) == IF a >= 0 THEN a % b ELSE -((-a) % b)

(* NOTES[i] put into a string: "undefined" outside 0..11 *)
NoteAt(i) == IF i \in 0..11 THEN NOTES[i + 1] ELSE <<"undefined">>

(* transposeNote, lines 135-142 *)
transposeNote(note, semitones) ==
    IF IndexOfNote(normalizeNote(note)) = -1 THEN note
    ELSE NoteAt(JsRem(IndexOfNote(normalizeNote(note)) + semitones
                        + 12 * 12, 12))

(* CHORD_REGEX, line 118:                                                  *)
(* /\b([A-G][#b]?)(m|maj|min|dim|aug|sus|add|M)?(\d+)?(\([^)]*\))?        *)
(*  (\/[A-G][#b]?)?\b/g.  Every optional group is tried present first,     *)
(* the later group given up first; Groups lists them in the order of the   *)
(* pattern, the accidental of the bass note last.                          *)
Groups == <<"acc", "mod", "deg", "par", "bass", "bacc">>

(* The end of the run of digits that starts at p *)
DigitsEnd(s, p) ==
    CHOOSE q \in p..(Len(s) + 1) :
        /\ \A k \in p..(q - 1) : s[k] \in DigitAtoms
        /\ AtomAt(s, q) \notin DigitAtoms

(* The position behind each group when the groups of f are taken at i;    *)
(* 0 when a taken group does not fit.                                      *)
AfterGroup(s, from, f, g) ==
    CASE g = "acc" ->
           IF ~f[g] THEN from
           ELSE IF AtomAt(s, from) \in Accidentals THEN from + 1 ELSE 0
      [] g = "mod" ->
           IF ~f[g] THEN from
           ELSE IF AtomAt(s, from) \in ModifierAtoms THEN from + 1 ELSE 0
      [] g = "deg" ->
           IF ~f[g] THEN from
           ELSE IF AtomAt(s, from) \in DigitAtoms THEN DigitsEnd(s, from)
           ELSE 0
      [] g = "par" ->
           IF ~f[g] THEN from
           ELSE IF AtomAt(s, from) = "(" /\ NextIn(s, {")"}, from + 1) # 0
           THEN NextIn(s, {")"}, from + 1) + 1 ELSE 0
      [] g = "bass" ->
           IF ~f[g] THEN from
           ELSE IF AtomAt(s, from) = "/" /\ AtomAt(s, from + 1) \in NoteLetters
           THEN from + 2 ELSE 0
      [] g = "bacc" ->
           IF ~f[g] THEN from
           ELSE IF f["bass"] /\ AtomAt(s, from) \in Accidentals
           THEN from + 1 ELSE 0

(* The positions behind the root and behind each of the six groups *)
RECURSIVE Cuts(_, _, _, _)
Cuts(s, i, f, k) ==
    IF k = 0 THEN <<i + 1>>
    ELSE LET before == Cuts(s, i, f, k - 1)
         IN  IF before[k] = 0 THEN before \o <<0>>
             ELSE before \o <<AfterGroup(s, before[k], f, Groups[k])>>

Fits(s, i, f) ==
    LET c == Cuts(s, i, f, 6)
    IN  c[7] # 0 /\ WordBoundary(s, c[7] - 1)

Preference(f) ==
    32 * (IF f["acc"] THEN 1 ELSE 0) + 16 * (IF f["mod"] THEN 1 ELSE 0)
      + 8 * (IF f["deg"] THEN 1 ELSE 0) + 4 * (IF f["par"] THEN 1 ELSE 0)
      + 2 * (IF f["bass"] THEN 1 ELSE 0) + (IF f["bacc"] THEN 1 ELSE 0)

GroupChoices == [{"acc", "mod", "deg", "par", "bass", "bacc"} -> BOOLEAN]

(* The match of CHORD_REGEX that starts at i, as the positions behind the  *)
(* root and the groups; Null when none starts there.                       *)
MatchAt(s, i) ==
    IF ~(AtomAt(s, i) \in NoteLetters /\ WordBoundary(s, i - 1)) THEN Null
    ELSE LET fit == {f \in GroupChoices : Fits(s, i, f)}
         IN  IF fit = {} THEN Null
             ELSE [cuts |-> Cuts(s, i,
                                 CHOOSE f \in fit :
                                    \A g \in fit : Preference(g) <= Preference(f),
                                 6)]

(* The replacement function of transposeChord, lines 153-165: c holds the  *)
(* positions behind root, modifier, degree, parenthetical and bass.        *)
Rebuilt(s, i, c, semitones) ==
    transposeNote(SubSeq(s, i, c[2] - 1), semitones)
      \o SubSeq(s, c[2], c[5] - 1)
      \o (IF c[7] = c[5] THEN <<>>
          ELSE <<"/">> \o transposeNote(SubSeq(s, c[5] + 1, c[7] - 1),
                                        semitones))

(* chord.replace(CHORD_REGEX, ...) from position i on *)
RECURSIVE ChordReplaced(_, _, _)
ChordReplaced(s, i, semitones) ==
    IF i > Len(s) THEN <<>>
    ELSE LET m == MatchAt(s, i)
         IN  IF m = Null THEN <<s[i]>> \o ChordReplaced(s, i + 1, semitones)
             ELSE Rebuilt(s, i, m.cuts, semitones)
                    \o ChordReplaced(s, m.cuts[7], semitones)

(* transposeChord, lines 150-166 *)
transposeChord(chord, semitones) ==
    IF semitones = 0 THEN chord ELSE ChordReplaced(chord, 1, semitones)

(* text.replace(CHORD_REGEX, match => transposeChord(match, semitones))    *)
(* from position i on                                                      *)
RECURSIVE LineReplaced(_, _, _)
LineReplaced(s, i, semitones) ==
    IF i > Len(s) THEN <<>>
    ELSE LET m == MatchAt(s, i)
         IN  IF m = Null THEN <<s[i]>> \o LineReplaced(s, i + 1, semitones)
             ELSE transposeChord(SubSeq(s, i, m.cuts[7] - 1), semitones)
                    \o LineReplaced(s, m.cuts[7], semitones)

(* Every atom of the line is handed to the replacement, chord or not *)
transposeLine_EveryAtom(text, semitones) ==
    IF semitones = 0 THEN text
    ELSE Concat([k \in 1..Len(text) |->
                   transposeNote(<<text[k]>>, semitones)])

(* transposeLine, lines 174-178 *)
transposeLine(text, semitones) ==
    IF semitones = 0 THEN text ELSE LineReplaced(text, 1, semitones)

(* parseChords, lines 185-199: the matches of CHORD_REGEX in the text,     *)
(* each with its first and last position                                   *)
RECURSIVE ChordsFrom(_, _)
ChordsFrom(s, i) ==
    IF i > Len(s) THEN <<>>
    ELSE LET m == MatchAt(s, i)
         IN  IF m = Null THEN ChordsFrom(s, i + 1)
             ELSE <<[from |-> i, to |-> m.cuts[7] - 1]>>
                    \o ChordsFrom(s, m.cuts[7])

parseChords(text) == ChordsFrom(text, 1)

----------------------------------------------------------------------------
(* Player (unnamed/part_005) and ChordLine (unnamed/part_008): the         *)
(* transpose counter and one line of the tab as it is displayed.           *)

MaxSemitones == 146

PlayerLines ==
    { <<"A", "m", " ", "la">>,
      <<"C", "#", " ", "la">>,
      <<"G", "/", "B", " ", "D", "b", "maj", "7">>,
      <<"A", " ", "day", " ", "la">>,
      <<"C", "la", " ", "day">>,
      <<"F", "(", "la", ")", " ", "E", "7">>,
      <<"la", "-", "A", "-", "la">>,
      <<"B", "b", "/", "F", "#", "m">>,
      <<"E", "sus", "7", "(", "A", ")", "la">>,
      <<"la", " ", "la">>,
      <<>> }

(* ChordLine, lines 33-35 *)
Displayed(l, semitones) ==
    IF semitones # 0 THEN transposeLine(l, semitones) ELSE l

InitPlayer ==
    /\ url = InvalidUrl
    /\ html = <<>>
    /\ op = "none"
    /\ result = NoValue
    /\ config = NoValue
    /\ ran = <<>>
    /\ registry = SITE_CONFIG
    /\ request = NoValue
    /\ upstream = NoValue
    /\ previous = NoValue
    /\ importingUrl = NoValue
    /\ rendered = NoValue
    /\ imports = NoValue
    /\ page = "player"
    /\ transpose = 0
    /\ line \in PlayerLines
    /\ displayLine = line
    /\ dbTabs = NoValue
    /\ toggles = NoValue
    /\ isFavorite = NoValue

(* handleTransposeUp, line 68, and the render that follows *)
HandleTransposeUp ==
    /\ transpose < MaxSemitones
    /\ transpose' = transpose + 1
    /\ displayLine' = Displayed(line, transpose')
    /\ UNCHANGED <<apiVars, homeVars, line, storeVars>>

(* handleTransposeDown, line 69 *)
HandleTransposeDown ==
    /\ transpose > -MaxSemitones
    /\ transpose' = transpose - 1
    /\ displayLine' = Displayed(line, transpose')
    /\ UNCHANGED <<apiVars, homeVars, line, storeVars>>

(* handleTransposeReset, line 70 *)
HandleTransposeReset ==
    /\ transpose' = 0
    /\ displayLine' = Displayed(line, transpose')
    /\ UNCHANGED <<apiVars, homeVars, line, storeVars>>

NextPlayer ==
    HandleTransposeUp \/ HandleTransposeDown \/ HandleTransposeReset

SpecPlayer == InitPlayer /\ [][NextPlayer]_vars

----------------------------------------------------------------------------
(* Home.jsx: importing a search result.  importingUrl is the component's   *)
(* state; rendered is the value of importingUrl the click handlers of the  *)
(* last render closed over; imports holds, for every handleImport call     *)
(* that got past its guard, the result's url and the await it stands at.   *)

MaxImports == 3

SearchResults == {"u1", "u2"}

InFlight == {i \in 1..Len(imports) : imports[i].at \in {"fetch", "add"}}

InitHome ==
    /\ url = InvalidUrl
    /\ html = <<>>
    /\ op = "none"
    /\ result = NoValue
    /\ config = NoValue
    /\ ran = <<>>
    /\ registry = SITE_CONFIG
    /\ request = NoValue
    /\ upstream = NoValue
    /\ previous = NoValue
    /\ importingUrl = Null
    /\ rendered = Null
    /\ imports = <<>>
    /\ page = "home"
    /\ transpose = NoValue
    /\ line = NoValue
    /\ displayLine = NoValue
    /\ dbTabs = NoValue
    /\ toggles = NoValue
    /\ isFavorite = NoValue

(* handleImport up to its first await, lines 75-84: a click on one of the  *)
(* result cards                                                            *)
HandleImport ==
    /\ page = "home"
    /\ \E r \in SearchResults :
          IF rendered # Null THEN UNCHANGED <<importingUrl, imports>>
          ELSE /\ Len(imports) < MaxImports
               /\ importingUrl' = [str |-> r]
               /\ imports' = Append(imports, [url |-> r, at |-> "fetch"])
    /\ UNCHANGED <<apiVars, rendered, page, playerVars, storeVars>>

(* The component is rendered again: the cards get handlers that close      *)
(* over the current state, lines 181-188                                   *)
Render ==
    /\ page = "home"
    /\ rendered # importingUrl
    /\ rendered' = importingUrl
    /\ UNCHANGED <<apiVars, importingUrl, imports, page, playerVars,
                   storeVars>>

(* fetch and res.json() settle, lines 79-92: a body with content goes on   *)
(* to tabService.add; an error body, an empty content or a rejection       *)
(* opens the original page, and finally resets importingUrl                *)
AwaitFetch ==
    /\ \E i \in 1..Len(imports) :
          /\ imports[i].at = "fetch"
          /\ \E data \in {"content", "error", "rejected"} :
                IF data = "content"
                THEN /\ imports' = [imports EXCEPT ![i].at = "add"]
                     /\ UNCHANGED importingUrl
                ELSE /\ imports' = [imports EXCEPT ![i].at = "opened"]
                     /\ importingUrl' = Null
    /\ UNCHANGED <<apiVars, rendered, page, playerVars, storeVars>>

(* tabService.add settles, lines 94-113: navigate to the player, or the    *)
(* catch branch; finally resets importingUrl                               *)
AwaitAdd ==
    /\ \E i \in 1..Len(imports) :
          /\ imports[i].at = "add"
          /\ \E saved \in BOOLEAN :
                IF saved
                THEN /\ imports' = [imports EXCEPT ![i].at = "saved"]
                     /\ page' = "player"
                ELSE /\ imports' = [imports EXCEPT ![i].at = "opened"]
                     /\ UNCHANGED page
    /\ importingUrl' = Null
    /\ UNCHANGED <<apiVars, rendered, playerVars, storeVars>>

NextHome == HandleImport \/ Render \/ AwaitFetch \/ AwaitAdd

SpecHome == InitHome /\ [][NextHome]_vars

(***************************************************************************)
(* The favourite mark: tabService.toggleFavorite and its caller in the     *)
(* Player page.  dbTabs is the row of the tab in db.tabs (Null: no row     *)
(* with that id), toggles the calls of handleToggleFavorite made so far,   *)
(* each with the place it has reached, the row its get read and the value  *)
(* it returned, and isFavorite the state of the Player page.               *)
(***************************************************************************)
MaxToggles == 3

Toggle(at, tab, returned) == [at |-> at, tab |-> tab, returned |-> returned]

(* tabService.add stores a new tab with isFavorite false unless the caller *)
(* gives it one, and no caller does: the row of a tab starts unmarked.     *)
InitFavorite ==
    /\ url = InvalidUrl
    /\ html = <<>>
    /\ op = "none"
    /\ result = NoValue
    /\ config = NoValue
    /\ ran = <<>>
    /\ registry = SITE_CONFIG
    /\ request = NoValue
    /\ upstream = NoValue
    /\ previous = NoValue
    /\ importingUrl = NoValue
    /\ rendered = NoValue
    /\ imports = NoValue
    /\ page = "player"
    /\ transpose = NoValue
    /\ line = NoValue
    /\ displayLine = NoValue
    /\ dbTabs \in {Null, [isFavorite |-> FALSE]}
    /\ toggles = <<>>
    /\ isFavorite = FALSE

(* handleToggleFavorite up to the first await of toggleFavorite: the call  *)
(* db.tabs.get(id) is made and the handler yields.  Nothing keeps a second *)
(* click from starting a call while an earlier one is still pending.       *)
HandleToggleFavorite ==
    /\ page = "player"
    /\ Len(toggles) < MaxToggles
    /\ toggles' = Append(toggles, Toggle("get", NoValue, NoValue))
    /\ UNCHANGED <<apiVars, homeVars, playerVars, dbTabs, isFavorite>>

(* db.tabs.get(id) settles: with a row, toggleFavorite goes on to call     *)
(* db.tabs.update and yields again; without one it returns false.          *)
TabsGet ==
    \E i \in 1..Len(toggles) :
        /\ toggles[i].at = "get"
        /\ toggles' = [toggles EXCEPT ![i] =
                          IF dbTabs = Null
                          THEN Toggle("setIsFavorite", Null, FALSE)
                          ELSE Toggle("update", dbTabs, NoValue)]
        /\ UNCHANGED <<apiVars, homeVars, playerVars, dbTabs, isFavorite>>

(* db.tabs.update(id, { isFavorite: !tab.isFavorite }) settles: the row    *)
(* gets the negation of what this call read, and the call returns it.      *)
TabsUpdate ==
    \E i \in 1..Len(toggles) :
        /\ toggles[i].at = "update"
        /\ dbTabs' = [dbTabs EXCEPT !.isFavorite = ~toggles[i].tab.isFavorite]
        /\ toggles' = [toggles EXCEPT ![i] =
                          Toggle("setIsFavorite", toggles[i].tab,
                                 ~toggles[i].tab.isFavorite)]
        /\ UNCHANGED <<apiVars, homeVars, playerVars, isFavorite>>

(* The rest of handleToggleFavorite: setIsFavorite(newState) *)
SetIsFavorite ==
    \E i \in 1..Len(toggles) :
        /\ toggles[i].at = "setIsFavorite"
        /\ isFavorite' = toggles[i].returned
        /\ toggles' = [toggles EXCEPT ![i].at = "done"]
        /\ UNCHANGED <<apiVars, homeVars, playerVars, dbTabs>>

NextFavorite == HandleToggleFavorite \/ TabsGet \/ TabsUpdate \/ SetIsFavorite

SpecFavorite == InitFavorite /\ [][NextFavorite]_vars

(***************************************************************************)
(* unescapeJsString character by character.  The body of a script string   *)
(* is a sequence of characters: a backslash, the letters and quotes that   *)
(* follow one in an escape, an ordinary letter, and groups of four         *)
(* hexadecimal digits (one element each, as the pattern takes them whole). *)
(***************************************************************************)
MaxBody == 4

HexGroups == {"0041", "005c"}

BodyChars == {"\\", "n", "r", "t", "\"", "'", "u", "x"} \cup HexGroups

(* String.fromCharCode(parseInt(hex, 16)), line 512 *)
FromCharCode(hex) == IF hex = "0041" THEN "A" ELSE "\\"

(* s.replace(/\\u([0-9a-fA-F]{4})/g, ...), line 512: the matches are taken *)
(* from the left, each search resuming after the previous match.           *)
RECURSIVE ReplaceUnicode(_, _)
ReplaceUnicode(s, i) ==
    IF i > Len(s) THEN <<>>
    ELSE IF i + 2 <= Len(s) /\ s[i] = "\\" /\ s[i + 1] = "u"
            /\ s[i + 2] \in HexGroups
         THEN <<FromCharCode(s[i + 2])>> \o ReplaceUnicode(s, i + 3)
         ELSE <<s[i]>> \o ReplaceUnicode(s, i + 1)

(* s.replace(/\\c/g, to) for one escape letter c, lines 513-518 *)
RECURSIVE ReplaceEscape(_, _, _, _)
ReplaceEscape(s, i, c, to) ==
    IF i > Len(s) THEN <<>>
    ELSE IF i + 1 <= Len(s) /\ s[i] = "\\" /\ s[i + 1] = c
         THEN <<to>> \o ReplaceEscape(s, i + 2, c, to)
         ELSE <<s[i]>> \o ReplaceEscape(s, i + 1, c, to)

(* unescapeJsString, lines 509-519: seven replacements, one after another, *)
(* each over the whole output of the one before.                           *)
unescapeJsStringChars(s) ==
    ReplaceEscape(
      ReplaceEscape(
        ReplaceEscape(
          ReplaceEscape(
            ReplaceEscape(
              ReplaceEscape(ReplaceUnicode(s, 1), 1, "n", "\n"),
              1, "r", "\r"),
            1, "t", "\t"),
          1, "\"", "\""),
        1, "'", "'"),
      1, "\\", "\\")

StringBodies == UNION {[1..n -> BodyChars] : n \in 0..MaxBody}

InitUnescape ==
    /\ url = InvalidUrl
    /\ html \in StringBodies
    /\ op = "none"
    /\ result = NoValue
    /\ config = NoValue
    /\ ran = <<>>
    /\ registry = SITE_CONFIG
    /\ request = NoValue
    /\ upstream = NoValue
    /\ previous = NoValue
    /\ importingUrl = NoValue
    /\ rendered = NoValue
    /\ imports = NoValue
    /\ page = NoValue
    /\ transpose = NoValue
    /\ line = NoValue
    /\ displayLine = NoValue
    /\ dbTabs = NoValue
    /\ toggles = NoValue
    /\ isFavorite = NoValue

(* A call unescapeJsString(s) on the body held in html *)
UnescapeJsString ==
    /\ op = "none"
    /\ op' = "unescapeJsString"
    /\ result' = [kind |-> "return", value |-> unescapeJsStringChars(html)]
    /\ UNCHANGED <<url, html, config, ran, registry, request, upstream,
                   previous, uiVars>>

NextUnescape == UnescapeJsString

SpecUnescape == InitUnescape /\ [][NextUnescape]_vars

----------------------------------------------------------------------------
(* C21 *)

(* The lines of a text *)
LinesOf(s) == Split(s, {"\n"})

(* trimmed.startsWith('var '): the line's first non-blank is the keyword   *)
(* and a blank follows it                                                  *)
IsDeclarationLine(l) ==
    \E i \in 1..(Len(l) - 1) :
        /\ l[i] = "var" /\ l[i + 1] = " "
        /\ \A k \in 1..(i - 1) : IsSpace(l[k])

IsBoilerplateLine(l) ==
    \E i \in 1..Len(l) : l[i] \in {"click here", "copyright"}

(* C21: the content a per-site extractor returns holds no line that        *)
(* starts with a variable-declaration keyword and no click-here or         *)
(* copyright line.                                                         *)
C21_NoResidueLines ==
    (Parsed /\ Returned /\ IsRecordResult) =>
        \A i \in 1..Len(LinesOf(result.value.content)) :
            /\ ~IsDeclarationLine(LinesOf(result.value.content)[i])
            /\ ~IsBoilerplateLine(LinesOf(result.value.content)[i])

----------------------------------------------------------------------------
(* C22 *)

(* The longer sheet has been validated after the shorter one *)
Revalidated == Validated /\ previous # NoValue

(* The lines put behind the validated sheet *)
Appended == SubSeq(html, Len(previous.content) + 2, Len(html))

(* C22: appending chord-bearing lines to a sheet never makes chordRatio    *)
(* smaller than it was for the sheet before the lines were appended.       *)
C22_NeverDecreases ==
    Revalidated =>
        result.value.chordRatio >= previous.record.chordRatio

(* C22, amended: appending chord-bearing lines whose own chordRatio is at  *)
(* least that of the sheet never makes chordRatio smaller.                 *)
C22_DenserLinesNeverDecrease ==
    (Revalidated /\ validateContent(Appended).chordRatio
                      >= previous.record.chordRatio) =>
        result.value.chordRatio >= previous.record.chordRatio

C22_Witness ==
    /\ Revalidated
    /\ validateContent(Appended).chordRatio >= previous.record.chordRatio
    /\ result.value.chordRatio > previous.record.chordRatio
    /\ previous.record.chordRatio > 0

----------------------------------------------------------------------------
(* C23 *)

RanJTotal == Parsed /\ Returned /\ ran = <<"parseJTotal">>

(* The trimmed texts of the <tt> and <pre> blocks of the page that reach   *)
(* 200 characters                                                          *)
LongBlocks ==
    {t \in {Trim(htmlToTextBlock(Inner(html, m))) :
               m \in {BlockMatches(html, {"<tt>"}, "</tt>", 1)[i] :
                        i \in 1..Len(BlockMatches(html, {"<tt>"}, "</tt>", 1))}
                 \cup {BlockMatches(html, PreOpens, "</pre>", 1)[i] :
                        i \in 1..Len(BlockMatches(html, PreOpens, "</pre>", 1))}} :
        TextLen(t) >= 200}

(* C23: the J-Total extractor's content is one of the <tt> and <pre>       *)
(* blocks of at least 200 characters, none of them longer, and '' when     *)
(* there is none; parseable is true exactly when there is one.             *)
C23_LongestBlockWins ==
    RanJTotal =>
        /\ IF LongBlocks = {} THEN result.value.content = <<>>
           ELSE /\ result.value.content \in LongBlocks
                /\ \A t \in LongBlocks :
                      TextLen(t) <= TextLen(result.value.content)
        /\ result.value.parseable = (LongBlocks # {})

C23_Witness ==
    /\ RanJTotal
    /\ Cardinality(LongBlocks) = 2
    /\ result.value.content \in LongBlocks
    /\ result.value.parseable
    /\ html[1] \in PreOpens

----------------------------------------------------------------------------
(* C24 *)

(* C24: at most one import is in flight on the Home page, whenever the     *)
(* clicks are delivered, and importingUrl is null once no import is in     *)
(* flight.                                                                 *)
C24_OneImportInFlight ==
    /\ Cardinality(InFlight) <= 1
    /\ (InFlight = {}) => (importingUrl = Null)

----------------------------------------------------------------------------
(* C25 *)

(* The pieces of a line between its chord tokens: before the first, between *)
(* two neighbours, behind the last                                         *)
Gaps(s) ==
    LET ms == parseChords(s)
    IN  [k \in 1..(Len(ms) + 1) |->
           SubSeq(s, IF k = 1 THEN 1 ELSE ms[k - 1].to + 1,
                     IF k > Len(ms) THEN Len(s) ELSE ms[k].from - 1)]

(* out is the pieces in their order, with something between each two *)
RECURSIVE KeepsGaps(_, _)
KeepsGaps(out, gaps) ==
    IF Len(gaps) = 1 THEN out = gaps[1]
    ELSE /\ Len(out) > Len(gaps[1])
         /\ SubSeq(out, 1, Len(gaps[1])) = gaps[1]
         /\ \E j \in (Len(gaps[1]) + 1)..Len(out) :
               KeepsGaps(SubSeq(out, j + 1, Len(out)), Tail(gaps))

----------------------------------------------------------------------------
(* C29 *)

(* The names of the twelve notes *)
NoteNames == {NOTES[k] : k \in 1..12}

(* C29: whatever the transpose counter has been clicked to, every chord    *)
(* root and bass note of the displayed line is one of the twelve note      *)
(* names: the index transposeNote computes lies in 0..11.                  *)
C29_AlwaysANoteName ==
    /\ \A k \in 1..Len(displayLine) : displayLine[k] # "undefined"
    /\ \A n \in NoteNames :
          JsRem(IndexOfNote(n) + transpose + 144, 12) \in 0..11

----------------------------------------------------------------------------
(* C26 *)

(* The handler answered a POST with status 200 *)
Answered200 ==
    op = "responded" /\ request.method = "POST" /\ result.status = 200

(* What parseTabFromHtml returned for the page of the request *)
ParsedValue == parseTabFromHtml(registry, html, url).value

ShortContent(v) ==
    "content" \notin DOMAIN v \/ TextLen(v.content) < 50

(* C26: in a 200 body for a POST, parseable is true only with a content of *)
(* at least 50 characters; when the parsed content is empty or shorter     *)
(* (the redirect-only result included) the body has parseable false and    *)
(* an error message, and every other field is the parser's.                *)
C26_ShortContentIsFlagged ==
    Answered200 =>
        /\ ("parseable" \in DOMAIN result.body /\ result.body.parseable = TRUE)
              => ~ShortContent(result.body)
        /\ ShortContent(ParsedValue) =>
              /\ result.body.parseable = FALSE
              /\ "error" \in DOMAIN result.body
              /\ DOMAIN result.body = DOMAIN ParsedValue \cup {"parseable", "error"}
              /\ \A f \in DOMAIN ParsedValue \ {"parseable", "error"} :
                    result.body[f] = ParsedValue[f]
        /\ ~ShortContent(ParsedValue) => result.body = ParsedValue

C26_Witness ==
    /\ Answered200
    /\ ShortContent(ParsedValue)
    /\ "parseable" \in DOMAIN ParsedValue /\ ParsedValue.parseable = TRUE
    /\ result.body.parseable = FALSE
    /\ "error" \in DOMAIN result.body

----------------------------------------------------------------------------
(* C27 *)

NoFetch == Calls("fetch") = 0

(* C27: the handler answers every request once: OPTIONS with 200, another  *)
(* method than POST with 405, a POST without url or with a malformed url   *)
(* with 400, all without an upstream fetch; a POST with a well-formed url  *)
(* makes the fetch and ends with the upstream error status, 200 or 500.    *)
C27_OneResponsePerRequest ==
    /\ op # "threw"
    /\ ~NoFetch => request.method = "POST" /\ request.body = "url" /\ url.valid
    /\ op = "responded" =>
          IF request.method = "OPTIONS" THEN result.status = 200 /\ NoFetch
          ELSE IF request.method # "POST" THEN result.status = 405 /\ NoFetch
          ELSE IF request.body # "url" \/ ~url.valid
          THEN result.status = 400 /\ NoFetch
          ELSE /\ Calls("fetch") = 1
               /\ \/ result.status \in {200, 500}
                  \/ /\ upstream.kind = "response"
                     /\ ~ok(upstream.status)
                     /\ result.status = upstream.status

(* C28: toggleFavorite applies once per call.  On an existing tab, when    *)
(* two calls were made and both have returned, whatever the order of their *)
(* get and update steps, the stored isFavorite is back at the value the    *)
(* tab started with, and each call returned the value its own update       *)
(* stored, the negation of what it read; with no tab of that id every call *)
(* returns false and nothing is stored.                                    *)
Returned28(i) == toggles[i].at \in {"setIsFavorite", "done"}

C28_EachCallTogglesOnce ==
    /\ (dbTabs # Null /\ Len(toggles) = 2
        /\ \A i \in 1..Len(toggles) : Returned28(i))
       => dbTabs.isFavorite = FALSE
    /\ \A i \in 1..Len(toggles) :
           Returned28(i) =>
               IF toggles[i].tab = Null
               THEN dbTabs = Null /\ toggles[i].returned = FALSE
               ELSE toggles[i].returned = ~toggles[i].tab.isFavorite

(* C30: unescapeJsString decodes a string body as one pass from the left   *)
(* does: each escape (backslash with n, r, t, a quote, a backslash, or u   *)
(* and four hexadecimal digits) is decoded once and what a replacement put *)
(* out is never read again as part of an escape; so an escaped backslash   *)
(* followed by the letter n gives a backslash and the letter n.            *)
EscapeLetters == {"n", "r", "t", "\"", "'", "\\"}

Decoded(c) ==
    IF c = "n" THEN "\n" ELSE IF c = "r" THEN "\r"
    ELSE IF c = "t" THEN "\t" ELSE c

RECURSIVE OnePass(_, _)
OnePass(s, i) ==
    IF i > Len(s) THEN <<>>
    ELSE IF i + 2 <= Len(s) /\ s[i] = "\\" /\ s[i + 1] = "u"
            /\ s[i + 2] \in HexGroups
         THEN <<FromCharCode(s[i + 2])>> \o OnePass(s, i + 3)
         ELSE IF i + 1 <= Len(s) /\ s[i] = "\\" /\ s[i + 1] \in EscapeLetters
              THEN <<Decoded(s[i + 1])>> \o OnePass(s, i + 2)
              ELSE <<s[i]>> \o OnePass(s, i + 1)

C30_DecodesAsOnePass ==
    op = "unescapeJsString" => result.value = OnePass(html, 1)

====
